---------------------------- MODULE Spec2Model ----------------------------
(***************************************************************************)
(* SMS provider routing and failover of the Cendika gateway:               *)
(*   BaseSMSProvider      (src/src/core/providers/sms/base-sms.provider.ts)*)
(*   SMSProviderFactory   (src/src/core/providers/sms/provider.factory.ts) *)
(*   SMSProviderRouter    (src/src/core/providers/sms/provider.router.ts)  *)
(*   KairosProvider       (src/unnamed/part_005, kairos.provider.ts)       *)
(*   AfricasTalkingProvider / TwilioProvider (placeholder adapters)        *)
(*                                                                         *)
(* JavaScript values are modelled as follows.  A string the code inspects  *)
(* character by character is a sequence of one-character strings; other    *)
(* strings are TLA+ strings.  An object is a record, and an optional       *)
(* property that is absent is a field that is not in the record's DOMAIN.  *)
(* A number that the code divides is an exact fraction <<num, den>>.       *)
(***************************************************************************)
EXTENDS Integers, Sequences, FiniteSets, TLC

(***************************************************************************)
(* Bounds of the model.                                                    *)
(***************************************************************************)
\* adapters registered in one registry
MaxProviders == 3
\* requests (routed or direct sends) started in one behaviour
MaxRequests == 2
\* a latency, in ms, that Date.now() - startTime measures besides 0
MaxLatency == 1
\* largest priority a configuration of the lookup specification gives
MaxPriority == 1

VARIABLES
    heap,       \* every BaseSMSProvider instance constructed: [kind, config, stats]
    registry,   \* SMSProviderFactory.providers: the Map's entries in insertion order
    req,        \* the request being served: the frame of sendSMS across its awaits
    hist,       \* per instance: sendSMS calls invoked/returned, updateStats calls seen
    started     \* number of requests started so far

vars == <<heap, registry, req, hist, started>>

(***************************************************************************)
(* Generic helpers.                                                        *)
(***************************************************************************)
Has(r, f) == f \in DOMAIN r

Range(s) == { s[i] : i \in 1..Len(s) }

RECURSIVE GCD(_, _)
GCD(a, b) == IF b = 0 THEN a ELSE GCD(b, a % b)

\* the fraction n/d (d > 0) in lowest terms
Frac(n, d) == LET g == GCD(n, d) IN <<n \div g, d \div g>>

FracLess(x, y) == x[1] * y[2] < y[1] * x[2]

\* JavaScript truthiness of a number held as a fraction: 0 is falsy
FracTruthy(x) == x[1] # 0

(***************************************************************************)
(* Array.prototype.sort((a, b) => key(a) - key(b)): a stable sort          *)
(* (ECMAScript 2019), ascending by key.  s is a sequence of instance ids   *)
(* and key a function from instance id to number.                          *)
(***************************************************************************)
RECURSIVE InsertByKey(_, _, _)
InsertByKey(x, s, key) ==
    IF s = <<>> THEN <<x>>
    ELSE IF key[x] < key[Head(s)] THEN <<x>> \o s
    ELSE <<Head(s)>> \o InsertByKey(x, Tail(s), key)

RECURSIVE SortByKey(_, _)
SortByKey(s, key) ==
    IF s = <<>> THEN <<>>
    ELSE InsertByKey(s[Len(s)], SortByKey(SubSeq(s, 1, Len(s) - 1), key), key)

(***************************************************************************)
(* Strings the code inspects, as sequences of characters.                  *)
(***************************************************************************)
Digits == {"0", "1", "2", "3", "4", "5", "6", "7", "8", "9"}
LowerLetters == {"a", "b", "c", "d", "e", "f", "g", "h", "i", "j", "k", "l", "m",
                 "n", "o", "p", "q", "r", "s", "t", "u", "v", "w", "x", "y", "z"}
UpperToLower == [c \in {"A", "K", "M", "N", "P", "T", "W"} |->
                   CASE c = "A" -> "a" [] c = "K" -> "k" [] c = "M" -> "m"
                     [] c = "N" -> "n" [] c = "P" -> "p" [] c = "T" -> "t"
                     [] c = "W" -> "w"]
Whitespace == {" "}

\* String.prototype.toLowerCase, one character
toLowerCase(c) == IF c \in DOMAIN UpperToLower THEN UpperToLower[c] ELSE c

\* name.toLowerCase().replace(/\s+/g, '_')
RECURSIVE LowerUnderscore(_, _)
LowerUnderscore(name, inSpace) ==
    IF name = <<>> THEN <<>>
    ELSE IF Head(name) \in Whitespace
         THEN (IF inSpace THEN <<>> ELSE <<"_">>) \o LowerUnderscore(Tail(name), TRUE)
         ELSE <<toLowerCase(Head(name))>> \o LowerUnderscore(Tail(name), FALSE)

\* fault: the provider id is the configured name as it is written
getProviderIdAsName(config) == config.name

\* BaseSMSProvider.getProviderId
getProviderId(config) == LowerUnderscore(config.name, FALSE)

\* BaseSMSProvider.getProviderName
getProviderName(config) == config.name

(***************************************************************************)
(* Provider statistics.                                                    *)
(***************************************************************************)
\* the stats a BaseSMSProvider is constructed with; lastUsed is absent
NewStats == [totalSent |-> 0, totalDelivered |-> 0, totalFailed |-> 0,
             successRate |-> <<0, 1>>, avgLatency |-> <<0, 1>>]

\* Date.now() - startTime: no time has passed, or some has
Latencies == {0, MaxLatency}

\* the call updateStats(success) passes no latency: the parameter is undefined
NoLatency == [given |-> FALSE]
Latency(ms) == [given |-> TRUE, ms |-> ms]

\* fault: the success rate is refreshed only when the attempt succeeded
updateStatsStaleRate(stats, success, latency) ==
    LET sent      == stats.totalSent + 1
        delivered == IF success THEN stats.totalDelivered + 1 ELSE stats.totalDelivered
        failed    == IF success THEN stats.totalFailed ELSE stats.totalFailed + 1
        rate      == IF success THEN Frac(delivered * 100, sent) ELSE stats.successRate
        avg       == IF latency.given /\ latency.ms # 0
                     THEN Frac(stats.avgLatency[1] * (sent - 1)
                                 + latency.ms * stats.avgLatency[2],
                               stats.avgLatency[2] * sent)
                     ELSE stats.avgLatency
    IN  [totalSent |-> sent, totalDelivered |-> delivered, totalFailed |-> failed,
         successRate |-> rate, avgLatency |-> avg, lastUsed |-> "now"]

\* BaseSMSProvider.updateStats(success, latency): the stats after the call
updateStats(stats, success, latency) ==
    LET sent      == stats.totalSent + 1
        delivered == IF success THEN stats.totalDelivered + 1 ELSE stats.totalDelivered
        failed    == IF success THEN stats.totalFailed ELSE stats.totalFailed + 1
        rate      == Frac(delivered * 100, sent)
        \* if (latency): undefined and 0 are both falsy
        avg       == IF latency.given /\ latency.ms # 0
                     THEN Frac(stats.avgLatency[1] * (sent - 1)
                                 + latency.ms * stats.avgLatency[2],
                               stats.avgLatency[2] * sent)
                     ELSE stats.avgLatency
    IN  [totalSent |-> sent, totalDelivered |-> delivered, totalFailed |-> failed,
         successRate |-> rate, avgLatency |-> avg, lastUsed |-> "now"]

(***************************************************************************)
(* Capability checks of one adapter.  A config whose supportedCountries is *)
(* missing makes .includes throw a TypeError: the result "throw".          *)
(***************************************************************************)
\* BaseSMSProvider.supportsCountry
supportsCountry(config, countryCode) ==
    IF ~Has(config, "supportedCountries") THEN "throw"
    ELSE IF countryCode \in Range(config.supportedCountries) THEN "true" ELSE "false"

\* fault: an adapter without a network list supports no network
supportsNetworkListed(config, network) ==
    Has(config, "supportedNetworks") /\ network \in Range(config.supportedNetworks)

\* BaseSMSProvider.supportsNetwork
supportsNetwork(config, network) ==
    IF ~Has(config, "supportedNetworks") THEN TRUE
    ELSE network \in Range(config.supportedNetworks)

\* priority || 999: an absent priority and the priority 0 are both falsy
PriorityOrDefault(config) ==
    IF Has(config, "priority") /\ config.priority # 0 THEN config.priority ELSE 999

(***************************************************************************)
(* SMSProviderFactory: lookups over the providers Map.  reg is the Map's   *)
(* entries in insertion order, hp the instances.  A lookup yields          *)
(* [threw |-> FALSE, list |-> instance ids] or [threw |-> TRUE].           *)
(***************************************************************************)
\* SMSProviderFactory.getAllProviders
getAllProviders(reg) == [i \in 1..Len(reg) |-> reg[i].ref]

\* SMSProviderFactory.getProvider(name)
getProvider(reg, name) ==
    LET key == [j \in 1..Len(name) |-> toLowerCase(name[j])]
        hit == { i \in 1..Len(reg) : reg[i].key = key }
    IN  IF hit = {} THEN 0 ELSE reg[CHOOSE i \in hit : TRUE].ref

\* the filter callback of getProvidersForCountry
CountryEligible(config, countryCode) ==
    supportsCountry(config, countryCode) = "true"
        \/ "*" \in Range(config.supportedCountries)

\* SMSProviderFactory.getProvidersForCountry
getProvidersForCountry(reg, hp, countryCode) ==
    LET all == getAllProviders(reg)
    IN  IF \E i \in 1..Len(all) : supportsCountry(hp[all[i]].config, countryCode) = "throw"
        THEN [threw |-> TRUE]
        ELSE LET Keep(id) == CountryEligible(hp[id].config, countryCode)
                 key == [id \in 1..Len(hp) |-> PriorityOrDefault(hp[id].config)]
             IN  [threw |-> FALSE, list |-> SortByKey(SelectSeq(all, Keep), key)]

\* SMSProviderFactory.getProvidersForNetwork
getProvidersForNetwork(reg, hp, countryCode, network) ==
    LET forCountry == getProvidersForCountry(reg, hp, countryCode)
    IN  IF forCountry.threw THEN forCountry
        ELSE LET Keep(id) == supportsNetwork(hp[id].config, network)
             IN  [threw |-> FALSE, list |-> SelectSeq(forCountry.list, Keep)]

(***************************************************************************)
(* Values the adapters and the router exchange.                            *)
(***************************************************************************)
\* JavaScript truthiness of an optional string property
TruthyStr(r, f) == Has(r, f) /\ r[f] # ""

\* a || b for an optional string property f of r
StrOr(r, f, default) == IF TruthyStr(r, f) THEN r[f] ELSE default

\* a promise that has settled
Resolved(v) == [tag |-> "resolved", value |-> v]
Rejected(e) == [tag |-> "rejected", error |-> e]

\* the TypeError of reading .length or .success of undefined
TypeError == [isError |-> TRUE, message |-> "Cannot read properties of undefined"]

\* number.toString() for the status codes of the model
CodeString(n) ==
    CASE n = 200 -> "200" [] n = 201 -> "201" [] n = 400 -> "400" [] n = 401 -> "401"
      [] n = 403 -> "403" [] n = 404 -> "404" [] n = 500 -> "500"

(***************************************************************************)
(* KairosProvider (src/unnamed/part_005).                                  *)
(***************************************************************************)
AlphaNumSpace == LowerLetters \cup DOMAIN UpperToLower \cup Digits \cup Whitespace

\* /^233[2345][0-9]{8}$/.test(recipient)
IsGhanaNumber(recipient) ==
    /\ Len(recipient) = 12
    /\ SubSeq(recipient, 1, 3) = <<"2", "3", "3">>
    /\ recipient[4] \in {"2", "3", "4", "5"}
    /\ \A i \in 5..12 : recipient[i] \in Digits

\* fault: the recipient check looks at the country prefix only
validateParametersPrefixOnly(options) ==
    IF \/ ~Has(options, "recipient") \/ options.recipient = <<>>
       \/ ~Has(options, "message") \/ options.message = <<>>
       \/ ~Has(options, "senderId") \/ options.senderId = <<>>
    THEN "Missing required parameters: recipient, message, or senderId"
    ELSE IF SubSeq(options.recipient, 1, 3) # <<"2", "3", "3">>
    THEN "Invalid Ghana phone number format. Must be 233XXXXXXXXX"
    ELSE IF Len(options.senderId) < 3 \/ Len(options.senderId) > 11
    THEN "Sender ID must be between 3 and 11 characters"
    ELSE "null"

\* KairosProvider.validateParameters: the error text, or "null"
validateParameters(options) ==
    IF \/ ~Has(options, "recipient") \/ options.recipient = <<>>
       \/ ~Has(options, "message") \/ options.message = <<>>
       \/ ~Has(options, "senderId") \/ options.senderId = <<>>
    THEN "Missing required parameters: recipient, message, or senderId"
    ELSE IF ~IsGhanaNumber(options.recipient)
    THEN "Invalid Ghana phone number format. Must be 233XXXXXXXXX"
    ELSE IF Len(options.message) = 0
    THEN "Message cannot be empty"
    ELSE IF Len(options.senderId) < 3 \/ Len(options.senderId) > 11
    THEN "Sender ID must be between 3 and 11 characters"
    ELSE IF ~(\A i \in 1..Len(options.senderId) : options.senderId[i] \in AlphaNumSpace)
    THEN "Sender ID can only contain letters, numbers, and spaces"
    ELSE "null"

\* KairosProvider.mapKairosStatus: statusMap[statusCode] || 'rejected'
mapKairosStatus(r) ==
    IF ~Has(r, "statusCode") THEN "rejected"
    ELSE CASE r.statusCode \in {200, 201} -> "submitted"
           [] r.statusCode = 400 -> "invalid_parameters"
           [] r.statusCode = 401 -> "authentication_error"
           [] r.statusCode = 403 -> "insufficient_credit"
           [] r.statusCode = 500 -> "provider_error"
           [] OTHER -> "rejected"

\* x.a || x.b || c over optional string values
ExternalId(response, options) ==
    IF TruthyStr(response, "dataId") THEN [externalId |-> <<response.dataId>>]
    ELSE IF TruthyStr(options, "messageId") THEN [externalId |-> <<options.messageId>>]
    ELSE << >>

\* KairosProvider.parseKairosResponse(response, messageId), response not null
parseKairosResponse(config, response, options) ==
    IF response.success = TRUE /\ Has(response, "statusCode") /\ response.statusCode = 200
    THEN [success |-> TRUE, status |-> "submitted",
          message |-> StrOr(response, "statusMessage", "Message submitted successfully"),
          providerId |-> getProviderId(config)] @@ ExternalId(response, options)
    ELSE [success |-> FALSE, status |-> mapKairosStatus(response),
          message |-> StrOr(response, "statusMessage", "Failed to send SMS"),
          errorCode |-> IF Has(response, "statusCode")
                        THEN CodeString(response.statusCode) ELSE "1710",
          providerId |-> getProviderId(config)]

\* KairosProvider.handleKairosError(error)
handleKairosError(config, error) ==
    IF Has(error, "statusCode") /\ error.statusCode # 0
    THEN [success |-> FALSE, status |-> mapKairosStatus(error),
          errorCode |-> CodeString(error.statusCode),
          providerId |-> getProviderId(config)]
         @@ (IF TruthyStr(error, "statusMessage") THEN [message |-> error.statusMessage]
             ELSE IF Has(error, "message") THEN [message |-> error.message]
             ELSE << >>)
    ELSE [success |-> FALSE, status |-> "failed",
          message |-> IF error.isError THEN error.message ELSE "Unknown provider error",
          errorCode |-> "1710", providerId |-> getProviderId(config)]

(***************************************************************************)
(* What one call of an adapter's sendSMS does up to its first await, as a  *)
(* set of effects (one per outcome the call can have):                     *)
(*   stats    the adapter's stats after it                                 *)
(*   recorded the updateStats calls made, as a sequence of success flags   *)
(*   settled  whether the promise has settled (FALSE: awaiting upstream)   *)
(*   promise  the settled promise                                          *)
(***************************************************************************)
\* fault: a validation failure returns without recording the attempt
KairosSendSMSBeginUnrecorded(inst, options) ==
    LET validationError == validateParameters(options)
    IN  IF validationError # "null"
        THEN { [stats |-> inst.stats, recorded |-> << >>, settled |-> TRUE,
                promise |-> Resolved([success |-> FALSE, status |-> "invalid_parameters",
                                      message |-> validationError, errorCode |-> "1702",
                                      providerId |-> getProviderId(inst.config)])] }
        ELSE { [stats |-> inst.stats, recorded |-> << >>, settled |-> FALSE] }

\* KairosProvider.sendSMS, from entry to the await of the SDK call
KairosSendSMSBegin(inst, options) ==
    LET validationError == validateParameters(options)
    IN  IF validationError # "null"
        THEN { [stats |-> updateStats(inst.stats, FALSE, NoLatency),
                recorded |-> <<FALSE>>, settled |-> TRUE,
                promise |-> Resolved([success |-> FALSE, status |-> "invalid_parameters",
                                      message |-> validationError, errorCode |-> "1702",
                                      providerId |-> getProviderId(inst.config)])] }
        ELSE { [stats |-> inst.stats, recorded |-> << >>, settled |-> FALSE] }

\* fault: no catch around the SDK call, a rejection escapes sendSMS
KairosSendSMSCompleteNoCatch(inst, options, upstream, latency) ==
    IF upstream.tag = "resolved"
    THEN LET response == upstream.value
         IN  [stats |-> updateStats(inst.stats, response.success = TRUE, Latency(latency)),
              recorded |-> <<response.success = TRUE>>, settled |-> TRUE,
              promise |-> Resolved(parseKairosResponse(inst.config, response, options))]
    ELSE [stats |-> inst.stats, recorded |-> << >>, settled |-> TRUE,
          promise |-> Rejected(IF upstream.tag = "null" THEN TypeError
                               ELSE upstream.error)]

\* KairosProvider.sendSMS, from the SDK's answer to the return
KairosSendSMSComplete(inst, options, upstream, latency) ==
    IF upstream.tag = "resolved"
    THEN LET response == upstream.value
         IN  [stats |-> updateStats(inst.stats, response.success = TRUE, Latency(latency)),
              recorded |-> <<response.success = TRUE>>, settled |-> TRUE,
              promise |-> Resolved(parseKairosResponse(inst.config, response, options))]
    ELSE LET \* a null answer: reading response.success throws inside the try
             error == IF upstream.tag = "null" THEN TypeError ELSE upstream.error
         IN  [stats |-> updateStats(inst.stats, FALSE, Latency(latency)),
              recorded |-> <<FALSE>>, settled |-> TRUE,
              promise |-> Resolved(handleKairosError(inst.config, error))]

\* AfricasTalkingProvider.sendSMS and TwilioProvider.sendSMS (placeholders):
\* maskPhone(recipient) throws inside the try when recipient is undefined
PlaceholderSendSMS(inst, options) ==
    { IF Has(options, "recipient")
      THEN [stats |-> updateStats(inst.stats, TRUE, Latency(latency)),
            recorded |-> <<TRUE>>, settled |-> TRUE,
            promise |-> Resolved([success |-> TRUE, status |-> "submitted",
                           externalId |-> <<IF inst.kind = "africastalking"
                                              THEN "at_" ELSE "tw_",
                                            StrOr(options, "messageId", "now")>>,
                           message |-> "Message submitted successfully (placeholder)",
                           providerId |-> getProviderId(inst.config)])]
      ELSE [stats |-> updateStats(inst.stats, FALSE, Latency(latency)),
            recorded |-> <<FALSE>>, settled |-> TRUE,
            promise |-> Resolved([success |-> FALSE, status |-> "failed",
                           message |-> TypeError.message, errorCode |-> "1710",
                           providerId |-> getProviderId(inst.config)])]
      : latency \in Latencies }

(***************************************************************************)
(* Any other subclass of BaseSMSProvider (README, "Adding New Providers"): *)
(* its sendSMS is the abstract method, so a call may resolve to a success, *)
(* to a failure with or without an error code, or reject.  It records the  *)
(* attempt as the shipped adapters do when it produces a response, and     *)
(* records nothing when the error escapes it.                              *)
(***************************************************************************)
CustomResponses(config) ==
    { [success |-> TRUE, status |-> "sent", externalId |-> <<"abc123">>,
       providerId |-> getProviderId(config)],
      [success |-> FALSE, status |-> "insufficient_credit", message |-> "No credit",
       errorCode |-> "E402", providerId |-> getProviderId(config)],
      [success |-> FALSE, status |-> "rejected", providerId |-> getProviderId(config)] }

CustomSendSMS(inst, options) ==
    { [stats |-> updateStats(inst.stats, response.success, Latency(latency)),
       recorded |-> <<response.success>>, settled |-> TRUE,
       promise |-> Resolved(response)]
      : response \in CustomResponses(inst.config), latency \in Latencies }
    \cup
    { [stats |-> inst.stats, recorded |-> << >>, settled |-> TRUE,
       promise |-> Rejected([isError |-> TRUE, message |-> "socket hang up"])] }

\* provider.sendSMS(options), dispatched on the instance's class
sendSMS(inst, options) ==
    CASE inst.kind = "kairos" -> KairosSendSMSBegin(inst, options)
      [] inst.kind \in {"africastalking", "twilio"} -> PlaceholderSendSMS(inst, options)
      [] OTHER -> CustomSendSMS(inst, options)

(***************************************************************************)
(* Inputs.                                                                 *)
(***************************************************************************)
GhanaNumber == <<"2", "3", "3", "2", "4", "1", "2", "3", "4", "5", "6", "7">>
LocalNumber == <<"0", "2", "4", "1", "2", "3", "4", "5", "6", "7">>

\* SendSMSOptions the callers pass, by name
Options ==
    [valid        |-> [recipient |-> GhanaNumber, message |-> <<"h", "i">>,
                       senderId |-> <<"M", "T", "N">>, messageId |-> "m1"],
     badRecipient |-> [recipient |-> LocalNumber, message |-> <<"h", "i">>,
                       senderId |-> <<"M", "T", "N">>],
     badSender    |-> [recipient |-> GhanaNumber, message |-> <<"h", "i">>,
                       senderId |-> <<"M", "T">>],
     noRecipient  |-> [message |-> <<"h", "i">>, senderId |-> <<"M", "T", "N">>]]

OptionNames == DOMAIN Options

Countries == {"GH", "ZZ"}
\* the network argument; "" is falsy, as is leaving it out
Networks == {"", "mtn", "glo"}

\* what the Kairos SDK call settles to
KairosUpstreams ==
    { Resolved([success |-> TRUE, statusCode |-> 200, dataId |-> "k-1"]),
      Resolved([success |-> TRUE, statusCode |-> 201, statusMessage |-> "Created"]),
      Resolved([success |-> FALSE, statusCode |-> 200]),
      Resolved([success |-> FALSE, statusCode |-> 400, statusMessage |-> "Bad request"]),
      Resolved([success |-> FALSE, statusCode |-> 403, statusMessage |-> "No credit"]),
      Resolved([success |-> FALSE, statusCode |-> 404]),
      Resolved([success |-> FALSE]),
      [tag |-> "null"],
      Rejected([isError |-> TRUE, statusCode |-> 401, statusMessage |-> "Unauthorized",
                message |-> "Request failed"]),
      Rejected([isError |-> TRUE, message |-> "timeout of 30000ms exceeded"]) }

(***************************************************************************)
(* The adapters a registry can hold: the configurations initializeProviders*)
(* builds (provider.factory.ts lines 25-36, 48-60, 97-107), the README's   *)
(* MyProvider, and a MyProvider whose configuration object came without    *)
(* supportedCountries.                                                     *)
(***************************************************************************)
Str_kairos == <<"k", "a", "i", "r", "o", "s">>
Str_africastalking == <<"a", "f", "r", "i", "c", "a", "s", "t", "a", "l", "k", "i", "n", "g">>
Str_twilio == <<"t", "w", "i", "l", "i", "o">>
Str_myprovider == <<"m", "y", "p", "r", "o", "v", "i", "d", "e", "r">>
Str_none == <<"n", "o", "n", "e">>
Str_multiple == <<"m", "u", "l", "t", "i", "p", "l", "e">>
Str_router == <<"r", "o", "u", "t", "e", "r">>

Catalogue ==
    << [key |-> Str_kairos, kind |-> "kairos",
        config |-> [name |-> <<"K", "a", "i", "r", "o", "s">>,
                    supportedCountries |-> <<"GH">>,
                    supportedNetworks |-> <<"mtn", "telecel", "at">>,
                    priority |-> 1]],
       [key |-> Str_africastalking, kind |-> "africastalking",
        config |-> [name |-> <<"A", "f", "r", "i", "c", "a", "s",
                               "T", "a", "l", "k", "i", "n", "g">>,
                    supportedCountries |-> <<"KE", "UG", "TZ", "RW", "NG", "GH", "ZA",
                                             "BF", "ML", "SN", "CI", "BJ", "TG", "NE">>,
                    priority |-> 2]],
       [key |-> Str_myprovider, kind |-> "custom",
        config |-> [name |-> <<"M", "y", "P", "r", "o", "v", "i", "d", "e", "r">>,
                    supportedCountries |-> <<"GH", "NG">>,
                    priority |-> 2]],
       [key |-> Str_twilio, kind |-> "twilio",
        config |-> [name |-> <<"T", "w", "i", "l", "i", "o">>,
                    supportedCountries |-> <<"*">>,
                    priority |-> 10]],
       [key |-> Str_myprovider, kind |-> "custom",
        config |-> [name |-> <<"M", "y", "P", "r", "o", "v", "i", "d", "e", "r">>,
                    priority |-> 2]] >>

\* the strictly increasing index sequences into 1..n of length at most k
RECURSIVE Increasing(_, _, _)
Increasing(lo, n, k) ==
    {<< >>} \cup
    (IF k = 0 THEN {}
     ELSE UNION { { <<i>> \o t : t \in Increasing(i + 1, n, k - 1) } : i \in lo..n })

\* new Map() followed by providers.set(key, instance) for each chosen adapter
RegistryOf(choice) ==
    [i \in 1..Len(choice) |-> [key |-> Catalogue[choice[i]].key, ref |-> i]]

HeapOf(choice) ==
    [i \in 1..Len(choice) |-> [kind |-> Catalogue[choice[i]].kind,
                               config |-> Catalogue[choice[i]].config,
                               stats |-> NewStats]]

DistinctKeys(choice) ==
    \A i, j \in 1..Len(choice) : i # j => Catalogue[choice[i]].key # Catalogue[choice[j]].key

NewHist == [invoked |-> 0, returned |-> 0, ok |-> 0, failed |-> 0]

\* one caller: its requests are made one after another, each awaited to its end
Slots == {1}

Idle == [pc |-> "idle"]

Init ==
    /\ \E choice \in Increasing(1, Len(Catalogue), MaxProviders) :
          /\ DistinctKeys(choice)
          /\ registry = RegistryOf(choice)
          /\ heap = HeapOf(choice)
          /\ hist = [i \in 1..Len(choice) |-> NewHist]
    /\ req = [s \in Slots |-> Idle]
    /\ started = 0

(***************************************************************************)
(* SMSProviderRouter.sendSMS (provider.router.ts lines 13-110).            *)
(* A request's frame: pc, mode ("router" or "direct"), options, country,   *)
(* network, providers (the candidate list), i (the loop's position),       *)
(* lastError, promise (the settled promise being awaited) and result.      *)
(* tried and outcomes are history: the instances whose sendSMS this        *)
(* request invoked, and how each call settled.                             *)
(***************************************************************************)
Undefined == [tag |-> "undefined"]
Value(v) == [tag |-> "value", value |-> v]

\* fault: the empty candidate list is reported like an exhausted one
NoProviderAsAllFailed(country, network) ==
    [success |-> FALSE, status |-> "failed", message |-> "All providers failed",
     errorCode |-> "ALL_FAILED", providerId |-> Str_multiple]

\* the outcome returned when the candidate list is empty (lines 27-33)
NoProvider(country, network) ==
    [success |-> FALSE, status |-> "failed",
     message |-> <<"No SMS providers available for ", country>>
                   \o (IF network # "" THEN <<"/", network>> ELSE << >>),
     errorCode |-> "NO_PROVIDER", providerId |-> Str_none]

\* fault: the exhaustion outcome is the last error with two fields overridden
AllFailedKeepsStatus(lastError) ==
    [success |-> FALSE,
     status |-> IF lastError.tag = "value" /\ Has(lastError.value, "status")
                THEN lastError.value.status ELSE "failed",
     message |-> "All providers failed",
     errorCode |-> IF lastError.tag = "value"
                   THEN StrOr(lastError.value, "errorCode", "ALL_FAILED")
                   ELSE "ALL_FAILED",
     providerId |-> Str_multiple]

\* fault: the exhaustion outcome always carries ALL_FAILED
AllFailedDropsCode(lastError) ==
    [success |-> FALSE, status |-> "failed",
     message |-> IF lastError.tag = "value"
                 THEN StrOr(lastError.value, "message", "All providers failed")
                 ELSE "All providers failed",
     errorCode |-> "ALL_FAILED",
     providerId |-> Str_multiple]

\* the outcome returned after the loop (lines 91-97)
AllFailed(lastError) ==
    [success |-> FALSE, status |-> "failed",
     message |-> IF lastError.tag = "value"
                 THEN StrOr(lastError.value, "message", "All providers failed")
                 ELSE "All providers failed",
     errorCode |-> IF lastError.tag = "value"
                   THEN StrOr(lastError.value, "errorCode", "ALL_FAILED")
                   ELSE "ALL_FAILED",
     providerId |-> Str_multiple]

\* fault: the outer catch reports the lookup error as an exhausted list
RoutingErrorAsAllFailed(error) ==
    [success |-> FALSE, status |-> "failed",
     message |-> StrOr(error, "message", "SMS routing failed"),
     errorCode |-> "ALL_FAILED", providerId |-> Str_multiple]

\* the outcome returned by the outer catch (lines 102-108)
RoutingError(error) ==
    [success |-> FALSE, status |-> "failed",
     message |-> StrOr(error, "message", "SMS routing failed"),
     errorCode |-> "ROUTING_ERROR", providerId |-> Str_router]

\* SMSProviderRouter.maskPhone(phone) reads phone.length: it throws on undefined
maskPhoneThrows(options) == ~Has(options, "recipient")

\* the call has settled: result is the settled promise the caller awaits
Done(r, promise) == [r EXCEPT !.pc = "done"] @@ [result |-> promise]

OutcomeOf(promise) ==
    IF promise.tag = "rejected" THEN "throw"
    ELSE IF promise.value.success THEN "ok" ELSE "fail"

CountOf(flags, b) == Cardinality({ k \in 1..Len(flags) : flags[k] = b })

\* fault: updateStats works on a copy of the stats taken before the await, so
\* its update is lost when another call is in flight on the adapter
ApplyLostUpdate(s, r, id, e, entering) ==
    /\ heap' = IF \E t \in DOMAIN req : /\ t # s /\ req[t].pc = "upstream"
                                        /\ req[t].tried[Len(req[t].tried)] = id
               THEN heap
               ELSE [heap EXCEPT ![id].stats = e.stats]
    /\ hist' = [hist EXCEPT ![id] =
                 [invoked  |-> @.invoked + (IF entering THEN 1 ELSE 0),
                  returned |-> @.returned + (IF e.settled THEN 1 ELSE 0),
                  ok       |-> @.ok + CountOf(e.recorded, TRUE),
                  failed   |-> @.failed + CountOf(e.recorded, FALSE)]]
    /\ LET r1 == IF entering THEN [r EXCEPT !.tried = Append(@, id)] ELSE r
       IN  req' = [req EXCEPT ![s] =
                IF ~e.settled THEN [r1 EXCEPT !.pc = "upstream"]
                ELSE LET r2 == [r1 EXCEPT !.outcomes = Append(@, OutcomeOf(e.promise)),
                                          !.promise = e.promise]
                     IN  IF r.mode = "router" THEN [r2 EXCEPT !.pc = "resume"]
                         ELSE Done(r2, e.promise)]

\* fault: the router does not await a call that has not settled, it goes
\* on to the next candidate while the call is in flight
ApplyNoAwait(s, r, id, e, entering) ==
    /\ heap' = [heap EXCEPT ![id].stats = e.stats]
    /\ hist' = [hist EXCEPT ![id] =
                 [invoked  |-> @.invoked + (IF entering THEN 1 ELSE 0),
                  returned |-> @.returned + (IF e.settled THEN 1 ELSE 0),
                  ok       |-> @.ok + CountOf(e.recorded, TRUE),
                  failed   |-> @.failed + CountOf(e.recorded, FALSE)]]
    /\ LET r1 == IF entering THEN [r EXCEPT !.tried = Append(@, id)] ELSE r
       IN  req' = [req EXCEPT ![s] =
                IF ~e.settled
                THEN [r1 EXCEPT !.pc = IF r.mode = "router" THEN "resume" ELSE "upstream",
                                !.promise = Rejected(TypeError)]
                ELSE LET r2 == [r1 EXCEPT !.outcomes = Append(@, OutcomeOf(e.promise)),
                                          !.promise = e.promise]
                     IN  IF r.mode = "router" THEN [r2 EXCEPT !.pc = "resume"]
                         ELSE Done(r2, e.promise)]

\* the effect e of (a part of) a sendSMS call on instance id, made for request r
Apply(s, r, id, e, entering) ==
    /\ heap' = [heap EXCEPT ![id].stats = e.stats]
    /\ hist' = [hist EXCEPT ![id] =
                 [invoked  |-> @.invoked + (IF entering THEN 1 ELSE 0),
                  returned |-> @.returned + (IF e.settled THEN 1 ELSE 0),
                  ok       |-> @.ok + CountOf(e.recorded, TRUE),
                  failed   |-> @.failed + CountOf(e.recorded, FALSE)]]
    /\ LET r1 == IF entering THEN [r EXCEPT !.tried = Append(@, id)] ELSE r
       IN  req' = [req EXCEPT ![s] =
                IF ~e.settled THEN [r1 EXCEPT !.pc = "upstream"]
                ELSE LET r2 == [r1 EXCEPT !.outcomes = Append(@, OutcomeOf(e.promise)),
                                          !.promise = e.promise]
                     IN  IF r.mode = "router" THEN [r2 EXCEPT !.pc = "resume"]
                         ELSE Done(r2, e.promise)]

\* the for loop from candidate r.i on, up to the next await or the return
ContinueLoop(s, r) ==
    IF r.i > Len(r.providers)
    THEN /\ req' = [req EXCEPT ![s] = Done(r, Resolved(AllFailed(r.lastError)))]
         /\ UNCHANGED <<heap, hist>>
    ELSE IF maskPhoneThrows(Options[r.options])
    THEN \* the debug log of every iteration throws into the inner catch
         /\ req' = [req EXCEPT ![s] =
                      Done([r EXCEPT !.i = Len(r.providers) + 1,
                                     !.lastError = Value(TypeError)],
                           Resolved(AllFailed(Value(TypeError))))]
         /\ UNCHANGED <<heap, hist>>
    ELSE \E e \in sendSMS(heap[r.providers[r.i]], Options[r.options]) :
            Apply(s, r, r.providers[r.i], e, TRUE)

\* the candidate list of a request (lines 20-22)
Candidates(reg, hp, country, network) ==
    IF network # "" THEN getProvidersForNetwork(reg, hp, country, network)
    ELSE getProvidersForCountry(reg, hp, country)

NewRequest(mode, o, country, network, providers) ==
    [pc |-> "start", mode |-> mode, options |-> o, country |-> country,
     network |-> network, providers |-> providers, i |-> 1, lastError |-> Undefined,
     promise |-> Undefined, tried |-> << >>, outcomes |-> << >>]

\* a caller invokes SMSProviderRouter.sendSMS(options, country, network)
RouterSendSMS(s, o, country, network) ==
    /\ req[s].pc = "idle"
    /\ started < MaxRequests
    /\ started' = started + 1
    /\ UNCHANGED registry
    /\ LET found == Candidates(registry, heap, country, network)
       IN  IF found.threw
           THEN /\ req' = [req EXCEPT ![s] =
                            Done(NewRequest("router", o, country, network, << >>),
                                 Resolved(RoutingError(TypeError)))]
                /\ UNCHANGED <<heap, hist>>
           ELSE IF Len(found.list) = 0
           THEN /\ req' = [req EXCEPT ![s] =
                            Done(NewRequest("router", o, country, network, << >>),
                                 Resolved(NoProvider(country, network)))]
                /\ UNCHANGED <<heap, hist>>
           ELSE ContinueLoop(s, NewRequest("router", o, country, network, found.list))

\* fault: a successful response is remembered like a failure, not returned
RouterResumeNoReturn(s) ==
    /\ req[s].pc = "resume"
    /\ UNCHANGED <<registry, started>>
    /\ LET r == req[s]
       IN  ContinueLoop(s, [r EXCEPT !.i = @ + 1,
                                     !.lastError =
                                        IF r.promise.tag = "resolved"
                                        THEN Value(r.promise.value)
                                        ELSE Value(r.promise.error)])

\* fault: no inner try/catch, so a rejected call lands in the outer catch
RouterResumeNoInnerCatch(s) ==
    /\ req[s].pc = "resume"
    /\ UNCHANGED <<registry, started>>
    /\ LET r == req[s]
       IN  IF r.promise.tag = "rejected"
           THEN /\ req' = [req EXCEPT ![s] = Done(r, Resolved(RoutingError(r.promise.error)))]
                /\ UNCHANGED <<heap, hist>>
           ELSE IF r.promise.value.success
           THEN /\ req' = [req EXCEPT ![s] = Done(r, Resolved(r.promise.value))]
                /\ UNCHANGED <<heap, hist>>
           ELSE ContinueLoop(s, [r EXCEPT !.i = @ + 1,
                                         !.lastError = Value(r.promise.value)])

\* the awaited provider.sendSMS has settled: lines 54-82, then the loop goes on
RouterResume(s) ==
    /\ req[s].pc = "resume"
    /\ UNCHANGED <<registry, started>>
    /\ LET r == req[s]
       IN  IF r.promise.tag = "resolved" /\ r.promise.value.success
           THEN /\ req' = [req EXCEPT ![s] = Done(r, Resolved(r.promise.value))]
                /\ UNCHANGED <<heap, hist>>
           ELSE ContinueLoop(s, [r EXCEPT !.i = @ + 1,
                                         !.lastError =
                                            IF r.promise.tag = "resolved"
                                            THEN Value(r.promise.value)
                                            ELSE Value(r.promise.error)])

\* the Kairos SDK call of a request settles: part_005 lines 246-269
KairosUpstream(s, upstream, latency) ==
    /\ req[s].pc = "upstream"
    /\ UNCHANGED <<registry, started>>
    /\ LET r  == req[s]
           id == r.tried[Len(r.tried)]
       IN  Apply(s, r, id,
                 KairosSendSMSComplete(heap[id], Options[r.options], upstream, latency),
                 FALSE)

\* a caller sends through one registered adapter itself:
\* SMSProviderFactory.getProvider(name).sendSMS(options)
DirectSendSMS(s, k, o) ==
    /\ req[s].pc = "idle"
    /\ started < MaxRequests
    /\ started' = started + 1
    /\ UNCHANGED registry
    /\ LET id == registry[k].ref
       IN  \E e \in sendSMS(heap[id], Options[o]) :
              Apply(s, NewRequest("direct", o, "", "", <<id>>), id, e, TRUE)

\* the caller has taken the outcome; the slot serves the next request
Return(s) ==
    /\ req[s].pc = "done"
    /\ req' = [req EXCEPT ![s] = Idle]
    /\ UNCHANGED <<heap, registry, hist, started>>

Next ==
    \/ \E s \in Slots, o \in OptionNames, c \in Countries, n \in Networks :
          RouterSendSMS(s, o, c, n)
    \/ \E s \in Slots : RouterResume(s)
    \/ \E s \in Slots, u \in KairosUpstreams, l \in Latencies : KairosUpstream(s, u, l)
    \/ \E s \in Slots, k \in 1..Len(registry), o \in OptionNames : DirectSendSMS(s, k, o)
    \/ \E s \in Slots : Return(s)

Spec == Init /\ [][Next]_vars
(***************************************************************************)
(* The registry lookups on their own: any registry of up to MaxProviders   *)
(* adapters whose configurations are drawn from small sets, and a caller   *)
(* that asks for the adapters of a country and of a country and network.   *)
(***************************************************************************)
Capabilities ==
    { [supportedCountries |-> <<"GH">>],
      [supportedCountries |-> <<"*">>, supportedNetworks |-> <<"mtn">>],
      [supportedCountries |-> <<"NG">>],
      [supportedCountries |-> <<"GH", "NG">>, supportedNetworks |-> <<"glo">>] }

\* priority?: number
Priorities == { << >> } \cup { [priority |-> n] : n \in 0..MaxPriority }

LookupKey(i) == <<"p", CASE i = 1 -> "1" [] i = 2 -> "2" [] i = 3 -> "3" [] OTHER -> "4">>

LookupConfigs(i, choice) == [name |-> LookupKey(i)] @@ choice[1] @@ choice[2]

InitLookup ==
    /\ \E n \in 0..MaxProviders :
          /\ registry = [i \in 1..n |-> [key |-> LookupKey(i), ref |-> i]]
          /\ \E choices \in [1..n -> Capabilities \X Priorities] :
                heap = [i \in 1..n |-> [kind |-> "custom",
                                        config |-> LookupConfigs(i, choices[i]),
                                        stats |-> NewStats]]
          /\ hist = [i \in 1..n |-> NewHist]
    /\ req = [s \in Slots |-> Idle]
    /\ started = 0

\* a caller asks the factory for the adapters of a country, and of a network in it
Lookup(s, country, network) ==
    /\ req[s].pc = "idle"
    /\ req' = [req EXCEPT ![s] =
                 [pc |-> "looked", country |-> country, network |-> network,
                  forCountry |-> getProvidersForCountry(registry, heap, country),
                  forNetwork |-> getProvidersForNetwork(registry, heap, country, network)]]
    /\ UNCHANGED <<heap, registry, hist, started>>

LookupReturn(s) ==
    /\ req[s].pc = "looked"
    /\ req' = [req EXCEPT ![s] = Idle]
    /\ UNCHANGED <<heap, registry, hist, started>>

NextLookup ==
    \/ \E s \in Slots, c \in {"GH", "ZZ"}, n \in {"mtn", "glo"} : Lookup(s, c, n)
    \/ \E s \in Slots : LookupReturn(s)

SpecLookup == InitLookup /\ [][NextLookup]_vars

(***************************************************************************)
(* Properties.                                                             *)
(***************************************************************************)
Routed(r) == r.pc # "idle" /\ r.pc # "looked" /\ r.mode = "router"

RoutedDone(r) == r.pc = "done" /\ r.mode = "router"

\* C1: a routed request invokes sendSMS on the candidates in candidate order,
\* each once, starting with the first, and invokes no candidate after one
\* whose call returned success: when adapter k is the first to succeed,
\* exactly adapters 1..k were invoked.
C1_AtMostOneSuccess ==
    \A s \in Slots :
        Routed(req[s]) =>
            LET r == req[s]
            IN  /\ Len(r.tried) <= Len(r.providers)
                /\ r.tried = SubSeq(r.providers, 1, Len(r.tried))
                /\ \A j \in 1..Len(r.outcomes) : r.outcomes[j] = "ok" => j = Len(r.tried)
                /\ (r.pc = "done" /\ r.result.value.success)
                      => /\ r.outcomes # << >>
                         /\ r.outcomes[Len(r.outcomes)] = "ok"
                         /\ Len(r.outcomes) = Len(r.tried)

\* C1 witness: of three candidates the first failed, the second succeeded and
\* the third was never invoked
C1_Witness ==
    \E s \in Slots :
        /\ RoutedDone(req[s])
        /\ Len(req[s].providers) = 3
        /\ req[s].outcomes = <<"fail", "ok">>
        /\ req[s].tried = SubSeq(req[s].providers, 1, 2)
        /\ hist[req[s].providers[3]].invoked = 0

\* every attempt of the request was made and none succeeded
Exhausted(r) ==
    /\ RoutedDone(r)
    /\ r.providers # << >>
    /\ Len(r.outcomes) = Len(r.providers)
    /\ \A j \in 1..Len(r.outcomes) : r.outcomes[j] # "ok"

\* the error code the last attempt supplied, or "" when it supplied none
LastErrorCode(r) ==
    IF r.promise.tag = "resolved" THEN StrOr(r.promise.value, "errorCode", "")
    ELSE StrOr(r.promise.error, "errorCode", "")

\* C2: when every candidate's attempt fails the router returns success = false
\* with providerId 'multiple' and the error code of the last attempt, or
\* ALL_FAILED when the last attempt supplied no code.
C2_Exhaustion ==
    \A s \in Slots :
        Exhausted(req[s]) =>
            LET r == req[s]
                out == r.result.value
            IN  /\ r.result.tag = "resolved"
                /\ out.success = FALSE
                /\ out.providerId = Str_multiple
                /\ out.errorCode = IF LastErrorCode(r) # "" THEN LastErrorCode(r)
                                   ELSE "ALL_FAILED"

\* C2 witness: two candidates failed, the first with an error code and the last
\* without one, and the outcome carries ALL_FAILED
C2_Witness ==
    \E s \in Slots :
        /\ Exhausted(req[s])
        /\ Len(req[s].providers) = 2
        /\ req[s].outcomes = <<"fail", "fail">>
        /\ LastErrorCode(req[s]) = ""
        /\ req[s].result.value.errorCode = "ALL_FAILED"

\* the message the last attempt carried, or "" when it carried none
LastMessage(r) ==
    IF r.promise.tag = "resolved" THEN StrOr(r.promise.value, "message", "")
    ELSE StrOr(r.promise.error, "message", "")

\* C3 as claimed: on exhaustion the outcome has the status and the message of
\* the last failed attempt.
C3_LastOutcomeKept ==
    \A s \in Slots :
        (Exhausted(req[s]) /\ req[s].promise.tag = "resolved") =>
            /\ req[s].result.value.status = req[s].promise.value.status
            /\ LastMessage(req[s]) # ""
                  => req[s].result.value.message = LastMessage(req[s])

\* C3 as amended: on exhaustion the outcome's status is 'failed' whatever the
\* status of the last failed attempt, and its message is the message of the
\* last failed attempt, or 'All providers failed' when that attempt had none.
C3_StatusFailedMessageKept ==
    \A s \in Slots :
        Exhausted(req[s]) =>
            /\ req[s].result.value.status = "failed"
            /\ req[s].result.value.message =
                  IF LastMessage(req[s]) # "" THEN LastMessage(req[s])
                  ELSE "All providers failed"

\* C3 witness: the last attempt failed with insufficient_credit and a message
\* of its own after an earlier failure
C3_Witness ==
    \E s \in Slots :
        /\ Exhausted(req[s])
        /\ Len(req[s].providers) >= 2
        /\ req[s].promise.tag = "resolved"
        /\ req[s].promise.value.status = "insufficient_credit"
        /\ req[s].result.value.message = req[s].promise.value.message

\* no well-formed registered adapter serves the country (and network, if given)
Serves(config, country, network) ==
    /\ country \in Range(config.supportedCountries) \/ "*" \in Range(config.supportedCountries)
    /\ network = "" \/ ~Has(config, "supportedNetworks")
          \/ network \in Range(config.supportedNetworks)

WellFormed == \A k \in 1..Len(registry) : Has(heap[registry[k].ref].config, "supportedCountries")

NoneServes(country, network) ==
    /\ WellFormed
    /\ \A k \in 1..Len(registry) : ~Serves(heap[registry[k].ref].config, country, network)

\* C4: a routed request for a destination that no registered adapter serves
\* returns at once with success = false, status 'failed' and NO_PROVIDER; the
\* step invokes no adapter and changes no adapter's statistics.
C4_NoProviderShortCircuit ==
    [][ \A s \in Slots :
          (/\ req[s].pc = "idle"
           /\ req'[s].pc # "idle"
           /\ req'[s].mode = "router"
           /\ NoneServes(req'[s].country, req'[s].network))
          => /\ req'[s].pc = "done"
             /\ req'[s].result.tag = "resolved"
             /\ req'[s].result.value.success = FALSE
             /\ req'[s].result.value.status = "failed"
             /\ req'[s].result.value.errorCode = "NO_PROVIDER"
             /\ req'[s].tried = << >>
             /\ heap' = heap
             /\ hist' = hist ]_vars

\* C4 witness: NO_PROVIDER was returned by a registry that holds adapters, one
\* of which has recorded attempts
C4_Witness ==
    \E s \in Slots :
        /\ RoutedDone(req[s])
        /\ NoneServes(req[s].country, req[s].network)
        /\ StrOr(req[s].result.value, "errorCode", "") = "NO_PROVIDER"
        /\ req[s].tried = << >>
        /\ \E id \in 1..Len(heap) : heap[id].stats.totalSent > 0

\* C5: a routed request always ends in a structured outcome, never in a
\* rejection; a candidate whose sendSMS threw counts as a failed attempt: the
\* next candidate is invoked after it, and when it was the last candidate the
\* request ends in the exhaustion outcome.
C5_RouterNeverRaises ==
    \A s \in Slots :
        Routed(req[s]) =>
            LET r == req[s]
            IN  /\ r.pc = "done" =>
                     /\ r.result.tag = "resolved"
                     /\ r.result.value.success \in BOOLEAN
                     /\ Has(r.result.value, "status")
                     /\ Has(r.result.value, "providerId")
                /\ \A j \in 1..Len(r.outcomes) :
                     r.outcomes[j] = "throw" =>
                        \/ r.pc = "resume" /\ j = Len(r.outcomes)
                        \/ j < Len(r.providers) /\ Len(r.tried) > j
                                                /\ r.tried[j + 1] = r.providers[j + 1]
                        \/ j = Len(r.providers) /\ r.pc = "done"
                                                /\ r.result.value.providerId = Str_multiple

\* C5 witness: the first candidate threw and the second was then invoked and
\* succeeded
C5_Witness ==
    \E s \in Slots :
        /\ RoutedDone(req[s])
        /\ req[s].outcomes = <<"throw", "ok">>
        /\ req[s].result.value.success

\* C6: when the lookup of the candidates throws, the routed request returns
\* success = false, status 'failed', ROUTING_ERROR, providerId 'router', and
\* no adapter's sendSMS is invoked.
C6_RoutingError ==
    [][ \A s \in Slots :
          (/\ req[s].pc = "idle"
           /\ req'[s].pc # "idle"
           /\ req'[s].mode = "router"
           /\ ~WellFormed)
          => /\ req'[s].pc = "done"
             /\ req'[s].result.tag = "resolved"
             /\ req'[s].result.value.success = FALSE
             /\ req'[s].result.value.status = "failed"
             /\ req'[s].result.value.errorCode = "ROUTING_ERROR"
             /\ req'[s].result.value.providerId = Str_router
             /\ req'[s].tried = << >>
             /\ hist' = hist ]_vars

\* C6 witness: ROUTING_ERROR was returned although the registry also holds an
\* adapter that serves the destination
C6_Witness ==
    \E s \in Slots :
        /\ RoutedDone(req[s])
        /\ StrOr(req[s].result.value, "errorCode", "") = "ROUTING_ERROR"
        /\ req[s].tried = << >>
        /\ \E k \in 1..Len(registry) :
              LET config == heap[registry[k].ref].config
              IN  Has(config, "supportedCountries")
                     /\ Serves(config, req[s].country, req[s].network)

\* the adapter is eligible for the country: its country set holds the code or '*'
Eligible(config, country) ==
    country \in Range(config.supportedCountries) \/ "*" \in Range(config.supportedCountries)

\* the numeric priority of an adapter; one configured without a priority
\* takes the factory's default
NumericPriority(config) == IF Has(config, "priority") THEN config.priority ELSE 999

NoDuplicates(list) == Cardinality(Range(list)) = Len(list)

\* C7 as claimed: getProvidersForCountry returns exactly the eligible adapters,
\* in ascending order of their numeric priority, whatever the priority values,
\* adapters of equal priority in registration order.
C7_PriorityOrdering ==
    \A s \in Slots :
        req[s].pc = "looked" =>
            LET list == req[s].forCountry.list
            IN  /\ NoDuplicates(list)
                /\ Range(list) = { registry[k].ref : k \in
                                     { k \in 1..Len(registry) :
                                         Eligible(heap[registry[k].ref].config,
                                                  req[s].country) } }
                /\ \A i, j \in 1..Len(list) :
                     i < j =>
                        LET pi == NumericPriority(heap[list[i]].config)
                            pj == NumericPriority(heap[list[j]].config)
                        IN  pi < pj \/ (pi = pj /\ list[i] < list[j])

\* the position of an instance in a list without duplicates
PositionIn(list, id) == CHOOSE i \in 1..Len(list) : list[i] = id

\* C8: getProvidersForNetwork returns exactly the adapters of the country list
\* whose network set is absent or holds the network, in the order they have in
\* the country list.
C8_NetworkFilter ==
    \A s \in Slots :
        req[s].pc = "looked" =>
            LET forCountry == req[s].forCountry.list
                forNetwork == req[s].forNetwork.list
            IN  /\ NoDuplicates(forNetwork)
                /\ Range(forNetwork) =
                      { id \in Range(forCountry) :
                          \/ ~Has(heap[id].config, "supportedNetworks")
                          \/ req[s].network \in Range(heap[id].config.supportedNetworks) }
                /\ \A i, j \in 1..Len(forNetwork) :
                     i < j => PositionIn(forCountry, forNetwork[i])
                                 < PositionIn(forCountry, forNetwork[j])

\* C8 witness: of three adapters of the country one is dropped for its network
\* list, one is kept for its network list and one for having none, and the
\* kept ones are not in registration order
C8_Witness ==
    \E s \in Slots :
        /\ req[s].pc = "looked"
        /\ Len(req[s].forCountry.list) = 3
        /\ Len(req[s].forNetwork.list) = 2
        /\ \E id \in Range(req[s].forNetwork.list) : ~Has(heap[id].config, "supportedNetworks")
        /\ \E id \in Range(req[s].forNetwork.list) : Has(heap[id].config, "supportedNetworks")
        /\ req[s].forNetwork.list[1] > req[s].forNetwork.list[2]

\* C9: the stats of every adapter are those of the attempts recorded on it:
\* after M successful and F failed attempts totalSent = M + F,
\* totalDelivered = M, totalFailed = F and successRate = M / (M + F) * 100.
C9_StatsFromCounters ==
    \A id \in 1..Len(heap) :
        LET M == hist[id].ok
            F == hist[id].failed
            stats == heap[id].stats
        IN  /\ stats.totalSent = M + F
            /\ stats.totalDelivered = M
            /\ stats.totalFailed = F
            /\ M + F > 0 => stats.successRate = Frac(M * 100, M + F)
            /\ stats.successRate[1] * stats.totalSent
                  = stats.totalDelivered * 100 * stats.successRate[2]

\* C9 witness: an adapter has recorded a success and then a failure, and its
\* success rate is 50
C9_Witness ==
    \E id \in 1..Len(heap) :
        /\ hist[id].ok = 1
        /\ hist[id].failed = 1
        /\ heap[id].stats.successRate = <<50, 1>>
        /\ \E s \in Slots : /\ req[s].pc = "done"
                            /\ req[s].tried # << >>
                            /\ req[s].tried[Len(req[s].tried)] = id
                            /\ req[s].outcomes[Len(req[s].outcomes)] = "fail"

Shipped == {"kairos", "africastalking", "twilio"}

\* C10: every sendSMS call of a Kairos, Africa's Talking or Twilio adapter has
\* recorded exactly one statistics update by the time it returns: totalSent
\* is the number of calls that returned, and the step in which a call
\* returns raises totalSent by exactly 1.
C10_OneUpdatePerCall ==
    [][ \A id \in 1..Len(heap) :
          heap[id].kind \in Shipped =>
             /\ heap'[id].stats.totalSent = hist'[id].returned
             /\ heap'[id].stats.totalSent - heap[id].stats.totalSent
                   = hist'[id].returned - hist[id].returned
             /\ hist'[id].returned - hist[id].returned \in {0, 1} ]_vars

\* C10 witness: a Kairos adapter has returned from a call that failed local
\* validation and from a call whose upstream answer was an exception
C10_Witness ==
    \E id \in 1..Len(heap), s \in Slots :
        /\ heap[id].kind = "kairos"
        /\ hist[id].returned = 2
        /\ heap[id].stats.totalSent = 2
        /\ heap[id].stats.avgLatency = <<0, 1>>
        /\ req[s].pc \in {"resume", "done"}
        /\ req[s].tried[Len(req[s].tried)] = id
        /\ req[s].promise.value.status = "failed"
        /\ req[s].promise.value.errorCode = "1710"

(***************************************************************************)
(* The Kairos adapter on its own: one KairosProvider, called directly with *)
(* options drawn from recipients, messages and sender ids of every kind    *)
(* the validation tells apart, and an SDK that answers in every way.       *)
(***************************************************************************)
\* recipients of the Ghana plan: 233, one of 2 3 4 5, eight more digits
PlanRecipients ==
    { GhanaNumber,
      <<"2", "3", "3", "5", "0", "0", "0", "0", "0", "0", "0", "9">> }

\* recipients outside it: local format, wrong fourth digit, too short, too
\* long, a letter, a leading plus, empty
OtherRecipients ==
    { LocalNumber,
      <<"2", "3", "3", "1", "4", "1", "2", "3", "4", "5", "6", "7">>,
      <<"2", "3", "3", "2", "4", "1", "2", "3", "4", "5", "6">>,
      <<"2", "3", "3", "2", "4", "1", "2", "3", "4", "5", "6", "7", "8">>,
      <<"2", "3", "3", "2", "4", "1", "2", "3", "4", "5", "6", "x">>,
      <<"+", "2", "3", "3", "2", "4", "1", "2", "3", "4", "5", "6", "7">>,
      << >> }

\* sender ids the adapter accepts: 3 to 11 letters, digits and spaces
GoodSenders ==
    { <<"M", "T", "N">>,
      <<"M", "y", " ", "S", "h", "o", "p", " ", "2", "4", "7">> }

\* sender ids it does not: too short, too long, a symbol, empty
BadSenders ==
    { <<"M", "T">>,
      <<"M", "y", " ", "S", "h", "o", "p", " ", "2", "4", "7", "x">>,
      <<"A", "-", "B">>,
      << >> }

Messages == { <<"h", "i">>, << >> }

\* a record with the field, or without it when the value is left out
Field(name, values) == { << >> } \cup { [f \in {name} |-> v] : v \in values }

KairosOptions ==
    { r @@ m @@ d : r \in Field("recipient", PlanRecipients \cup OtherRecipients),
                    m \in Field("message", Messages),
                    d \in Field("senderId", GoodSenders \cup BadSenders) }

\* options the adapter must send upstream
SendableOptions ==
    { o \in KairosOptions :
        /\ Has(o, "recipient") /\ o.recipient \in PlanRecipients
        /\ Has(o, "message") /\ o.message # << >>
        /\ Has(o, "senderId") /\ o.senderId \in GoodSenders }

\* what the SDK call settles to, with a server error, an answer that only
\* says it failed, and a rejection with something that is not an Error
KairosAnswers ==
    KairosUpstreams \cup
    { Resolved([success |-> FALSE, statusCode |-> 500, statusMessage |-> "Server error"]),
      Rejected([isError |-> FALSE, statusCode |-> 500]),
      Rejected([isError |-> FALSE]) }

InitKairos ==
    /\ registry = RegistryOf(<<1>>)
    /\ heap = HeapOf(<<1>>)
    /\ hist = <<NewHist>>
    /\ req = [s \in Slots |-> Idle]
    /\ started = 0

\* a caller invokes the adapter's sendSMS(options): part_005 lines 211-248
KairosSend(s, options) ==
    /\ req[s].pc = "idle"
    /\ started < MaxRequests
    /\ started' = started + 1
    /\ UNCHANGED registry
    /\ \E e \in sendSMS(heap[1], options) :
          Apply(s, NewRequest("direct", options, "", "", <<1>>), 1, e, TRUE)

\* the SDK call settles: part_005 lines 246-269
KairosAnswer(s, upstream, latency) ==
    /\ req[s].pc = "upstream"
    /\ UNCHANGED <<registry, started>>
    /\ Apply(s, req[s], 1,
             KairosSendSMSComplete(heap[1], req[s].options, upstream, latency), FALSE)

NextKairos ==
    \/ \E s \in Slots, o \in KairosOptions : KairosSend(s, o)
    \/ \E s \in Slots, u \in KairosAnswers, l \in Latencies : KairosAnswer(s, u, l)
    \/ \E s \in Slots : Return(s)

SpecKairos == InitKairos /\ [][NextKairos]_vars

\* the step is the entry of a sendSMS call of request s with these options
Enters(s) == req[s].pc = "idle" /\ req'[s].pc # "idle"

\* C11: a Kairos sendSMS given a recipient outside the Ghana plan, a missing
\* field or an invalid sender id returns success = false with status
\* 'invalid_parameters' in the step it is called, without an SDK call, and
\* records exactly one failed attempt.
C11_LocalValidation ==
    [][ \A s \in Slots :
          (Enters(s) /\ req'[s].options \notin SendableOptions) =>
             /\ req'[s].pc = "done"
             /\ req'[s].result.tag = "resolved"
             /\ req'[s].result.value.success = FALSE
             /\ req'[s].result.value.status = "invalid_parameters"
             /\ hist'[1].failed = hist[1].failed + 1
             /\ hist'[1].ok = hist[1].ok
             /\ heap'[1].stats.totalSent = heap[1].stats.totalSent + 1
             /\ heap'[1].stats.totalFailed = heap[1].stats.totalFailed + 1
             /\ heap'[1].stats.totalDelivered = heap[1].stats.totalDelivered ]_vars

\* C11 witness: after a call that went upstream, a call with a recipient whose
\* fourth digit is outside the plan has returned invalid_parameters
C11_Witness ==
    \E s \in Slots :
        /\ req[s].pc = "done"
        /\ Has(req[s].options, "recipient")
        /\ Len(req[s].options.recipient) = 12
        /\ req[s].options.recipient[4] = "1"
        /\ Has(req[s].options, "senderId") /\ req[s].options.senderId \in GoodSenders
        /\ req[s].result.value.status = "invalid_parameters"
        /\ hist[1] = [invoked |-> 2, returned |-> 2, ok |-> 1, failed |-> 1]

StatusEnumeration ==
    { "submitted", "sent", "delivered", "failed", "rejected", "invalid_parameters",
      "authentication_error", "insufficient_credit", "provider_error" }

\* C12: a Kairos sendSMS never throws: whatever the SDK does, the call settles
\* as a returned ProviderResponse whose status is of the closed enumeration,
\* and whenever the SDK answered with an error, nothing or a rejection the
\* response has success = false.
C12_NoEscape ==
    \A s \in Slots :
        req[s].pc = "done" =>
            /\ req[s].result.tag = "resolved"
            /\ req[s].result.value.status \in StatusEnumeration
            /\ req[s].result.value.success \in BOOLEAN
            /\ req[s].outcomes = <<IF req[s].result.value.success THEN "ok" ELSE "fail">>
            /\ req[s].result.value.success =>
                 /\ req[s].options \in SendableOptions
                 /\ req[s].result.value.status = "submitted"

\* C12 witness: the SDK call was rejected with something that is not an Error
\* and sendSMS returned the failure as a response
C12_Witness ==
    \E s \in Slots :
        /\ req[s].pc = "done"
        /\ req[s].options \in SendableOptions
        /\ req[s].result.tag = "resolved"
        /\ req[s].result.value.success = FALSE
        /\ req[s].result.value.status = "failed"
        /\ req[s].result.value.message = "Unknown provider error"
        /\ heap[1].stats.totalFailed = 1

(***************************************************************************)
(* SMSProviderRouter.getBestProvider (provider.router.ts lines 115-151)    *)
(* over a registry holding the Kairos, Africa's Talking, MyProvider and    *)
(* Twilio adapters, whose stats are whatever the attempts recorded on them *)
(* have made them.                                                         *)
(***************************************************************************)
\* attempts recorded in one behaviour of the selection specification
MaxAttempts == 3

\* Array.prototype.sort((a, b) => key(a) - key(b)) for keys that are fractions
RECURSIVE InsertByFrac(_, _, _)
InsertByFrac(x, s, key) ==
    IF s = <<>> THEN <<x>>
    ELSE IF FracLess(key[x], key[Head(s)]) THEN <<x>> \o s
    ELSE <<Head(s)>> \o InsertByFrac(x, Tail(s), key)

RECURSIVE SortByFrac(_, _)
SortByFrac(s, key) ==
    IF s = <<>> THEN <<>>
    ELSE InsertByFrac(s[Len(s)], SortByFrac(SubSeq(s, 1, Len(s) - 1), key), key)

\* getStats().avgLatency || 1000
LatencyOrDefault(stats) == IF FracTruthy(stats.avgLatency) THEN stats.avgLatency ELSE <<1000, 1>>

\* getStats().successRate || 0
RateOrDefault(stats) == IF FracTruthy(stats.successRate) THEN stats.successRate ELSE <<0, 1>>

Criteria == {"", "cost", "speed", "reliability"}

\* fault: the criterion is ignored, the first candidate is returned
getBestProviderFirst(reg, hp, country, network, criteria) ==
    LET found == Candidates(reg, hp, country, network)
    IN  IF found.threw THEN [threw |-> TRUE]
        ELSE [threw |-> FALSE, candidates |-> found.list,
              provider |-> IF Len(found.list) = 0 THEN 0 ELSE found.list[1]]

\* SMSProviderRouter.getBestProvider: the instance returned, 0 for null
getBestProvider(reg, hp, country, network, criteria) ==
    LET found == Candidates(reg, hp, country, network)
    IN  IF found.threw THEN [threw |-> TRUE]
        ELSE IF Len(found.list) = 0
        THEN [threw |-> FALSE, candidates |-> found.list, provider |-> 0]
        ELSE LET ids     == Range(found.list)
                 latency == [id \in ids |-> LatencyOrDefault(hp[id].stats)]
                 rate    == [id \in ids |->
                               LET r == RateOrDefault(hp[id].stats) IN <<0 - r[1], r[2]>>]
             IN  [threw |-> FALSE, candidates |-> found.list,
                  provider |->
                     CASE criteria = "speed" -> SortByFrac(found.list, latency)[1]
                       [] criteria = "reliability" -> SortByFrac(found.list, rate)[1]
                       [] OTHER -> found.list[1]]

\* what an attempt passes to updateStats: a success or a failure, timed at
\* 200 ms or at 1500 ms, or a failure that was not timed
Attempts ==
    { [success |-> TRUE,  latency |-> Latency(200)],
      [success |-> TRUE,  latency |-> Latency(1500)],
      [success |-> FALSE, latency |-> Latency(200)],
      [success |-> FALSE, latency |-> NoLatency] }

InitBest ==
    /\ registry = RegistryOf(<<1, 2, 3, 4>>)
    /\ heap = HeapOf(<<1, 2, 3, 4>>)
    /\ hist = [i \in 1..4 |-> NewHist]
    /\ req = [s \in Slots |-> Idle]
    /\ started = 0

\* an adapter records an attempt: BaseSMSProvider.updateStats(success, latency)
RecordAttempt(k, a) ==
    /\ started < MaxAttempts
    /\ started' = started + 1
    /\ LET id == registry[k].ref
       IN  /\ heap' = [heap EXCEPT ![id].stats = updateStats(@, a.success, a.latency)]
           /\ hist' = [hist EXCEPT ![id].ok = @ + (IF a.success THEN 1 ELSE 0),
                                   ![id].failed = @ + (IF a.success THEN 0 ELSE 1)]
    /\ UNCHANGED <<registry, req>>

\* a caller asks for the best provider of a destination; stats keeps the
\* statistics the adapters had when it asked
GetBestProvider(s, country, network, criteria) ==
    /\ req[s].pc = "idle"
    /\ req' = [req EXCEPT ![s] =
                 [pc |-> "best", country |-> country, network |-> network,
                  criteria |-> criteria,
                  stats |-> [id \in 1..Len(heap) |-> heap[id].stats]]
                 @@ getBestProvider(registry, heap, country, network, criteria)]
    /\ UNCHANGED <<heap, registry, hist, started>>

BestReturn(s) ==
    /\ req[s].pc = "best"
    /\ req' = [req EXCEPT ![s] = Idle]
    /\ UNCHANGED <<heap, registry, hist, started>>

NextBest ==
    \/ \E k \in 1..Len(registry), a \in Attempts : RecordAttempt(k, a)
    \/ \E s \in Slots, c \in Countries, n \in Networks, cr \in Criteria :
          GetBestProvider(s, c, n, cr)
    \/ \E s \in Slots : BestReturn(s)

SpecBest == InitBest /\ [][NextBest]_vars

\* C13 as claimed: under 'speed' the candidate returned has the lowest
\* avgLatency of the candidates with a recorded latency, so a never-used
\* candidate is not returned whenever some candidate has a recorded latency.
C13_SpeedUnusedLast ==
    \A s \in Slots :
        (req[s].pc = "best" /\ req[s].criteria = "speed" /\ req[s].provider # 0) =>
            LET stats == req[s].stats
                timed == { id \in Range(req[s].candidates) : stats[id].avgLatency[1] # 0 }
            IN  timed # {} =>
                  /\ stats[req[s].provider].totalSent > 0
                  /\ req[s].provider \in timed
                  /\ \A id \in timed :
                        ~FracLess(stats[id].avgLatency, stats[req[s].provider].avgLatency)

\* C14: under 'reliability' the candidate returned has the highest successRate
\* (0 for a candidate without attempts, which no candidate with a positive
\* rate follows), and of the candidates with that rate it is the first in
\* priority order.
C14_ReliabilityStable ==
    \A s \in Slots :
        (req[s].pc = "best" /\ req[s].criteria = "reliability" /\ req[s].provider # 0) =>
            LET list == req[s].candidates
                best == req[s].provider
                rate == [id \in Range(list) |-> req[s].stats[id].successRate]
            IN  /\ best \in Range(list)
                /\ \A id \in Range(list) : ~FracLess(rate[best], rate[id])
                /\ \A i \in 1..Len(list) :
                      i < PositionIn(list, best) => FracLess(rate[list[i]], rate[best])
                /\ (\E id \in Range(list) : rate[id][1] > 0) =>
                      req[s].stats[best].totalSent > 0

\* C14 witness: the first candidate has only failed, the second has no attempt,
\* the third and fourth both have a success rate of 100, and the third is returned
C14_Witness ==
    \E s \in Slots :
        /\ req[s].pc = "best" /\ req[s].criteria = "reliability"
        /\ Len(req[s].candidates) = 4
        /\ req[s].stats[req[s].candidates[1]].totalFailed = 1
        /\ req[s].stats[req[s].candidates[2]].totalSent = 0
        /\ req[s].stats[req[s].candidates[3]].successRate = <<100, 1>>
        /\ req[s].stats[req[s].candidates[4]].successRate = <<100, 1>>
        /\ req[s].provider = req[s].candidates[3]

(***************************************************************************)
(* SMSProviderRouter.checkDeliveryStatus (provider.router.ts lines         *)
(* 156-197) over the registries of Init.  A request's frame: pc, name (the *)
(* providerName argument, empty when left out), providers (the adapters    *)
(* the call goes through), i, tried (the instances whose getDeliveryStatus *)
(* was called), outcomes (how each call settled) and result.               *)
(***************************************************************************)
Str_nexmo == <<"n", "e", "x", "m", "o">>

\* the providerName argument: left out, a key initializeProviders uses, the
\* README's, or one that is never registered
ProviderNames ==
    { << >>, Str_kairos, Str_africastalking, Str_twilio, Str_myprovider, Str_nexmo }

\* KairosProvider.mapDeliveryStatus(response.data?.status || response.status)
mapDeliveryStatus(response) ==
    LET kairosStatus == IF TruthyStr(response, "dataStatus") THEN response.dataStatus
                        ELSE IF TruthyStr(response, "status") THEN response.status
                        ELSE "undefined"
    IN  CASE kairosStatus \in {"pending", "accepted", "submitted"} -> "sent"
          [] kairosStatus \in {"success", "delivered"} -> "delivered"
          [] kairosStatus \in {"failed", "undelivered", "rejected"} -> "failed"
          [] OTHER -> "unknown"

\* what the Kairos SDK's ping settles to
KairosPings ==
    { Resolved([success |-> TRUE, dataStatus |-> "delivered"]),
      Resolved([success |-> TRUE, status |-> "pending"]),
      Resolved([success |-> FALSE, statusMessage |-> "Message not found"]),
      [tag |-> "null"],
      Rejected([isError |-> TRUE, message |-> "timeout of 30000ms exceeded"]) }

\* KairosProvider.getDeliveryStatus: the promise it settles to, per SDK answer
KairosGetDeliveryStatus(externalId, ping) ==
    IF ping.tag = "resolved"
    THEN Resolved([status |-> mapDeliveryStatus(ping.value), timestamp |-> "now",
                   externalId |-> externalId]
                  @@ (IF ping.value.success \/ ~TruthyStr(ping.value, "statusMessage")
                      THEN << >> ELSE [error |-> ping.value.statusMessage]))
    ELSE Resolved([status |-> "unknown", externalId |-> externalId,
                   error |-> IF ping.tag = "null" THEN TypeError.message
                             ELSE ping.error.message])

\* provider.getDeliveryStatus(externalId): the promises the call can settle to.
\* The placeholders answer 'sent'; any other subclass may answer a known
\* status, 'unknown', nothing at all, or reject.
getDeliveryStatus(inst, externalId) ==
    CASE inst.kind = "kairos" ->
            { KairosGetDeliveryStatus(externalId, ping) : ping \in KairosPings }
      [] inst.kind \in {"africastalking", "twilio"} ->
            { Resolved([status |-> "sent", timestamp |-> "now", externalId |-> externalId]) }
      [] OTHER ->
            { Resolved([status |-> "delivered", externalId |-> externalId]),
              Resolved([status |-> "unknown", externalId |-> externalId]),
              [tag |-> "resolved", value |-> Undefined],
              Rejected([isError |-> TRUE, message |-> "socket hang up"]) }

\* reading status.status of what the awaited call resolved to throws
StatusThrows(promise) == promise.tag = "rejected" \/ promise.value = Undefined

CouldNotGetStatus(externalId) ==
    [status |-> "unknown", externalId |-> externalId,
     error |-> "Could not get status from any provider"]

\* the loop over all providers from position r.i on (lines 171-186)
ProbeLoop(r) ==
    IF r.i > Len(r.providers)
    THEN Done(r, Resolved(CouldNotGetStatus(r.externalId)))
    ELSE [r EXCEPT !.pc = "probe", !.tried = Append(@, r.providers[r.i])]

\* fault: no try/catch inside the loop, a rejected lookup ends the call
ProbeSettledNoCatch(r, promise) ==
    LET r1 == [r EXCEPT !.outcomes = Append(@, promise)]
    IN  IF r.mode = "named"
        THEN IF promise.tag = "rejected"
             THEN Done(r1, Resolved([status |-> "unknown", externalId |-> r.externalId,
                                     error |-> promise.error.message]))
             ELSE Done(r1, promise)
        ELSE IF StatusThrows(promise)
        THEN Done(r1, Resolved([status |-> "unknown", externalId |-> r.externalId,
                                error |-> IF promise.tag = "rejected"
                                          THEN promise.error.message
                                          ELSE TypeError.message]))
        ELSE IF promise.value.status # "unknown"
        THEN Done(r1, promise)
        ELSE ProbeLoop([r1 EXCEPT !.i = @ + 1])

\* the awaited getDeliveryStatus has settled: lines 163 and 173-179
ProbeSettled(r, promise) ==
    LET r1 == [r EXCEPT !.outcomes = Append(@, promise)]
    IN  IF r.mode = "named"
        THEN IF promise.tag = "rejected"
             THEN Done(r1, Resolved([status |-> "unknown", externalId |-> r.externalId,
                                     error |-> promise.error.message]))
             ELSE Done(r1, promise)
        ELSE IF ~StatusThrows(promise) /\ promise.value.status # "unknown"
        THEN Done(r1, promise)
        ELSE ProbeLoop([r1 EXCEPT !.i = @ + 1])

\* a caller invokes checkDeliveryStatus(externalId, providerName)
CheckDeliveryStatus(s, externalId, name) ==
    /\ req[s].pc = "idle"
    /\ LET provider == IF name # << >> THEN getProvider(registry, name) ELSE 0
           frame == [pc |-> "start", externalId |-> externalId, name |-> name, i |-> 1,
                     tried |-> << >>, outcomes |-> << >>]
       IN  req' = [req EXCEPT ![s] =
                     IF provider # 0
                     THEN ProbeLoop(frame @@ [mode |-> "named", providers |-> <<provider>>])
                     ELSE ProbeLoop(frame @@ [mode |-> "all",
                                              providers |-> getAllProviders(registry)])]
    /\ UNCHANGED <<heap, registry, hist, started>>

\* the adapter's getDeliveryStatus settles and checkDeliveryStatus goes on
DeliveryStatusSettles(s) ==
    /\ req[s].pc = "probe"
    /\ \E promise \in getDeliveryStatus(heap[req[s].tried[Len(req[s].tried)]],
                                        req[s].externalId) :
          req' = [req EXCEPT ![s] = ProbeSettled(req[s], promise)]
    /\ UNCHANGED <<heap, registry, hist, started>>

NextStatus ==
    \/ \E s \in Slots, name \in ProviderNames : CheckDeliveryStatus(s, "ext-1", name)
    \/ \E s \in Slots : DeliveryStatusSettles(s)
    \/ \E s \in Slots : Return(s)

SpecStatus == Init /\ [][NextStatus]_vars

\* the instances registered under the name
RegisteredAs(name) == { registry[k].ref : k \in { k \in 1..Len(registry) :
                                                   registry[k].key = name } }

\* C15 as claimed: with a providerName, checkDeliveryStatus calls
\* getDeliveryStatus on the adapter of that name only; when the name is not
\* registered it calls it on no adapter and returns status 'unknown' with an
\* error.
C15_NamedAdapterOnly ==
    \A s \in Slots :
        (req[s].pc \in {"probe", "done"} /\ req[s].name # << >>) =>
            /\ Range(req[s].tried) \subseteq RegisteredAs(req[s].name)
            /\ (req[s].pc = "done" /\ RegisteredAs(req[s].name) = {}) =>
                  /\ req[s].result.value.status = "unknown"
                  /\ Has(req[s].result.value, "error")

\* the status a settled lookup gave, "unknown" when it gave none
KnownStatus(promise) ==
    IF StatusThrows(promise) THEN "unknown" ELSE promise.value.status

\* C16: without a providerName checkDeliveryStatus calls the registered
\* adapters one by one in registration order, goes on after an adapter that
\* answers 'unknown' or whose lookup throws, returns the first status that is
\* not 'unknown' and calls no adapter after it, returns 'unknown' with the
\* error 'Could not get status from any provider' when no adapter gave a
\* known status, and never throws.
C16_FirstKnownStatus ==
    \A s \in Slots :
        (req[s].pc \in {"probe", "done"} /\ req[s].name = << >>) =>
            LET all == [k \in 1..Len(registry) |-> registry[k].ref]
                n   == Len(req[s].outcomes)
            IN  /\ req[s].tried = SubSeq(all, 1, Len(req[s].tried))
                /\ \A k \in 1..n :
                      KnownStatus(req[s].outcomes[k]) # "unknown" =>
                         k = n /\ req[s].pc = "done"
                /\ req[s].pc = "done" =>
                      /\ req[s].result.tag = "resolved"
                      /\ Len(req[s].tried) = n
                      /\ IF n > 0 /\ KnownStatus(req[s].outcomes[n]) # "unknown"
                         THEN req[s].result = req[s].outcomes[n]
                         ELSE /\ n = Len(all)
                              /\ req[s].result.value = CouldNotGetStatus(req[s].externalId)

\* C16 witness: the first adapter answered 'unknown', the lookup of the second
\* threw, and the status of the third was returned
C16_Witness ==
    \E s \in Slots :
        /\ req[s].pc = "done" /\ req[s].name = << >>
        /\ Len(req[s].outcomes) = 3
        /\ req[s].outcomes[1].tag = "resolved"
        /\ req[s].outcomes[1].value # Undefined
        /\ req[s].outcomes[1].value.status = "unknown"
        /\ req[s].outcomes[2].tag = "rejected"
        /\ req[s].result.tag = "resolved"
        /\ req[s].result.value.status = "sent"

(***************************************************************************)
(* SMSProviderFactory.healthCheckAll (provider.factory.ts lines 188-202)   *)
(* over the registries of Init.  A request's frame: pc, i (the position in *)
(* the Map's iteration), results (the object being filled, by Map key) and *)
(* balances (history: what each adapter's checkBalance settled to).        *)
(***************************************************************************)
\* the value of a string of decimal digits
RECURSIVE DigitsValue(_)
DigitsValue(chars) ==
    IF chars = << >> THEN 0
    ELSE 10 * DigitsValue(SubSeq(chars, 1, Len(chars) - 1))
         + (CHOOSE d \in 0..9 : ToString(d) = chars[Len(chars)])

\* the longest prefix of chars made of digits
RECURSIVE DigitPrefix(_)
DigitPrefix(chars) ==
    IF chars = << >> \/ Head(chars) \notin Digits THEN << >>
    ELSE <<Head(chars)>> \o DigitPrefix(Tail(chars))

\* parseFloat(text) || 0 for texts holding a whole number: NaN and 0 give 0
parseFloatOrZero(text) ==
    LET negative == text # << >> /\ Head(text) = "-"
        digits   == DigitPrefix(IF negative THEN Tail(text) ELSE text)
    IN  IF digits = << >> THEN 0
        ELSE IF negative THEN 0 - DigitsValue(digits) ELSE DigitsValue(digits)

\* what the Kairos SDK's balance call settles to
KairosBalances ==
    { Resolved([success |-> TRUE, balance |-> <<"2", "5">>]),
      Resolved([success |-> TRUE, balance |-> <<"-", "5">>]),
      Resolved([success |-> TRUE, balance |-> <<"n", "/", "a">>]),
      Resolved([success |-> TRUE]),
      Resolved([success |-> FALSE, statusMessage |-> "Invalid credentials"]),
      Resolved([success |-> FALSE]),
      [tag |-> "null"],
      Rejected([isError |-> TRUE, message |-> "timeout of 30000ms exceeded"]) }

\* KairosProvider.checkBalance, per SDK answer; response.data is present when
\* the answer carries a balance
KairosCheckBalance(answer) ==
    IF answer.tag = "resolved"
    THEN IF answer.value.success /\ Has(answer.value, "balance")
         THEN Resolved([balance |-> parseFloatOrZero(answer.value.balance),
                        currency |-> "GHS"])
         ELSE Resolved([balance |-> 0, currency |-> "GHS",
                        error |-> StrOr(answer.value, "statusMessage",
                                        "Failed to get balance")])
    ELSE Resolved([balance |-> 0, currency |-> "GHS",
                   error |-> IF answer.tag = "null" THEN TypeError.message
                             ELSE answer.error.message])

\* provider.checkBalance(): the promises the call can settle to.  The
\* placeholders answer 100 USD; any other subclass may answer a balance, an
\* overdrawn balance, an error, or reject.
checkBalance(inst) ==
    CASE inst.kind = "kairos" -> { KairosCheckBalance(a) : a \in KairosBalances }
      [] inst.kind \in {"africastalking", "twilio"} ->
            { Resolved([balance |-> 100, currency |-> "USD"]) }
      [] OTHER ->
            { Resolved([balance |-> 50, currency |-> "USD"]),
              Resolved([balance |-> 0 - 5, currency |-> "USD"]),
              Resolved([balance |-> 0, currency |-> "USD", error |-> "Account suspended"]),
              Rejected([isError |-> TRUE, message |-> "socket hang up"]) }

\* BaseSMSProvider.healthCheck, given what checkBalance settled to
healthCheck(balance) ==
    IF balance.tag = "rejected"
    THEN [healthy |-> FALSE, message |-> StrOr(balance.error, "message", "Health check failed")]
    ELSE IF TruthyStr(balance.value, "error")
    THEN [healthy |-> FALSE, message |-> balance.value.error]
    ELSE [healthy |-> TRUE, message |-> "Provider is healthy",
          balance |-> balance.value.balance]

\* the for loop of healthCheckAll at position r.i: the next await or the return
HealthLoop(r) ==
    IF r.i > Len(registry) THEN Done(r, Resolved(r.results))
    ELSE [r EXCEPT !.pc = "balance"]

HealthCheckAll(s) ==
    /\ req[s].pc = "idle"
    /\ req' = [req EXCEPT ![s] =
                 HealthLoop([pc |-> "start", i |-> 1, results |-> << >>,
                             balances |-> << >>])]
    /\ UNCHANGED <<heap, registry, hist, started>>

\* the adapter's checkBalance settles: results[name] = await provider.healthCheck()
BalanceSettles(s) ==
    /\ req[s].pc = "balance"
    /\ LET r    == req[s]
           name == registry[r.i].key
       IN  \E balance \in checkBalance(heap[registry[r.i].ref]) :
              req' = [req EXCEPT ![s] =
                        HealthLoop([r EXCEPT
                           !.i = @ + 1,
                           !.results = [k \in DOMAIN r.results \cup {name} |->
                                          IF k = name THEN healthCheck(balance)
                                          ELSE r.results[k]],
                           !.balances = Append(@, balance)])]
    /\ UNCHANGED <<heap, registry, hist, started>>

NextHealth ==
    \/ \E s \in Slots : HealthCheckAll(s)
    \/ \E s \in Slots : BalanceSettles(s)
    \/ \E s \in Slots : Return(s)

SpecHealth == Init /\ [][NextHealth]_vars

\* C17 as claimed: healthCheckAll has called checkBalance on every registered
\* adapter and reports, under each adapter's name, healthy = true exactly when
\* its balance check gave no error and a balance of at least 0.
C17_HealthyIffBalance ==
    \A s \in Slots :
        req[s].pc = "done" =>
            /\ Len(req[s].balances) = Len(registry)
            /\ DOMAIN req[s].result.value = { registry[k].key : k \in 1..Len(registry) }
            /\ \A k \in 1..Len(registry) :
                  LET balance == req[s].balances[k]
                  IN  req[s].result.value[registry[k].key].healthy
                         = (/\ balance.tag = "resolved"
                            /\ ~Has(balance.value, "error")
                            /\ balance.value.balance >= 0)

(***************************************************************************)
(* SMSProviderFactory.initializeProviders (provider.factory.ts lines       *)
(* 19-117) called again after the call the module makes when it is         *)
(* imported (part_005 line 161; README line 70 calls it as well).  The     *)
(* initial state is the one after the import: the adapters whose           *)
(* credentials the environment holds are registered.  Attempts are         *)
(* recorded on the registered instances in between.                        *)
(***************************************************************************)
\* calls of initializeProviders after the one made on import
MaxInits == 2

\* the Catalogue entries initializeProviders builds: Kairos, Africa's Talking, Twilio
FactoryEntries == {1, 2, 4}

\* Map.prototype.set(key, ref): an existing key keeps its place and gets the new value
MapSet(reg, key, ref) ==
    IF \E k \in 1..Len(reg) : reg[k].key = key
    THEN [k \in 1..Len(reg) |-> IF reg[k].key = key THEN [key |-> key, ref |-> ref]
                                 ELSE reg[k]]
    ELSE Append(reg, [key |-> key, ref |-> ref])

\* the configured entries, in the order initializeProviders goes through them
ConfiguredEntries(reg) ==
    SelectSeq(<<1, 2, 4>>, LAMBDA c : \E k \in 1..Len(reg) : reg[k].key = Catalogue[c].key)

\* providers.set(key, createProvider(...)) for the entries from position j on;
\* the new instances take the heap positions from Len(hp) + 1
RECURSIVE SetAll(_, _, _, _)
SetAll(reg, entries, j, base) ==
    IF j > Len(entries) THEN reg
    ELSE SetAll(MapSet(reg, Catalogue[entries[j]].key, base + j), entries, j + 1, base)

InitRegistry ==
    /\ \E choice \in Increasing(1, Len(Catalogue), MaxProviders) :
          /\ Range(choice) \subseteq FactoryEntries
          /\ registry = RegistryOf(choice)
          /\ heap = HeapOf(choice)
          /\ hist = [i \in 1..Len(choice) |-> NewHist]
    /\ req = [s \in Slots |-> Idle]
    /\ started = 0

\* a caller invokes SMSProviderFactory.initializeProviders(): the function
\* has no await, so it runs to its end in one step
InitializeProviders ==
    /\ Len(heap) <= MaxInits * Len(registry)
    /\ LET entries == ConfiguredEntries(registry)
       IN  /\ heap' = heap \o [j \in 1..Len(entries) |->
                                 [kind |-> Catalogue[entries[j]].kind,
                                  config |-> Catalogue[entries[j]].config,
                                  stats |-> NewStats]]
           /\ hist' = hist \o [j \in 1..Len(entries) |-> NewHist]
           /\ registry' = SetAll(registry, entries, 1, Len(heap))
    /\ UNCHANGED <<req, started>>

\* SMSProviderFactory.getProviderStats(): the stats reported under each name
getProviderStats(reg, hp) ==
    [name \in { reg[k].key : k \in 1..Len(reg) } |->
        LET ref == getProvider(reg, name)
        IN  hp[ref].stats @@
            [config |-> [countries |-> hp[ref].config.supportedCountries,
                         priority |-> hp[ref].config.priority]
                        @@ (IF Has(hp[ref].config, "supportedNetworks")
                            THEN [networks |-> hp[ref].config.supportedNetworks]
                            ELSE << >>)]]

\* a caller reads getProviderStats()
GetProviderStats(s) ==
    /\ req[s].pc = "idle"
    /\ req' = [req EXCEPT ![s] = Done([pc |-> "start"],
                                      Resolved(getProviderStats(registry, heap)))]
    /\ UNCHANGED <<heap, registry, hist, started>>

NextRegistry ==
    \/ InitializeProviders
    \/ \E k \in 1..Len(registry), a \in Attempts : RecordAttempt(k, a)
    \/ \E s \in Slots : GetProviderStats(s)
    \/ \E s \in Slots : Return(s)

SpecRegistry == InitRegistry /\ [][NextRegistry]_vars

\* C18 as claimed: registration is append-only: no step removes a registered
\* adapter or puts another instance under a name that is already registered.
C18_AppendOnly ==
    [][ /\ Len(registry') >= Len(registry)
        /\ \A k \in 1..Len(registry) : registry'[k] = registry[k] ]_vars

\* C19 as claimed: the totalSent, totalDelivered and totalFailed that
\* getProviderStats reports for a provider name never decrease, whatever
\* is done in between, a repeated initializeProviders included.
C19_StatsNeverDecrease ==
    [][ LET before == getProviderStats(registry, heap)
            after  == getProviderStats(registry', heap')
        IN  \A name \in DOMAIN before :
               /\ name \in DOMAIN after
               /\ after[name].totalSent >= before[name].totalSent
               /\ after[name].totalDelivered >= before[name].totalDelivered
               /\ after[name].totalFailed >= before[name].totalFailed ]_vars

\* C20: within one routed request at most one adapter call is in flight:
\* every call but the last one made has completed, and completed with a
\* failure, before the next was made; the last one is the only one that can
\* be in flight, and it is exactly while the request waits for the upstream.
C20_SequentialFailover ==
    \A s \in Slots :
        Routed(req[s]) =>
            LET calls   == Len(req[s].tried)
                settled == Len(req[s].outcomes)
            IN  /\ calls - settled \in {0, 1}
                /\ (calls - settled = 1) = (req[s].pc = "upstream")
                /\ \A k \in 1..(calls - 1) : req[s].outcomes[k] \in {"fail", "throw"}
                /\ \A j, k \in 1..calls : j # k => req[s].tried[j] # req[s].tried[k]

\* C20 witness: the Kairos call, which is awaited over a step of its own, has
\* failed, and the call to the second candidate is made after it
C20_Witness ==
    \E s \in Slots :
        /\ Routed(req[s])
        /\ req[s].pc = "resume"
        /\ Len(req[s].tried) = 2
        /\ heap[req[s].tried[1]].kind = "kairos"
        /\ req[s].options = "valid"
        /\ req[s].outcomes = <<"fail", "ok">>

(***************************************************************************)
(* Concurrent callers.  Several callers send at the same time, directly    *)
(* through an adapter or through the router, over a registry holding the   *)
(* Kairos and the Africa's Talking adapters.  A step is what runs between  *)
(* two awaits of one call; the steps of different calls interleave freely. *)
(* A direct call's frame also keeps overlap: the calls that were in flight *)
(* on the adapter when it was made.                                        *)
(***************************************************************************)
\* callers whose requests can be in progress at the same time
MaxCallers == 2

Callers == 1..MaxCallers

\* the sendSMS calls made on the instance that have not returned
InFlight(id) == hist[id].invoked - hist[id].returned

InitConcurrent ==
    /\ registry = RegistryOf(<<1, 2>>)
    /\ heap = HeapOf(<<1, 2>>)
    /\ hist = <<NewHist, NewHist>>
    /\ req = [s \in Callers |-> Idle]
    /\ started = 0

\* a caller sends through a registered adapter while others may be sending
ConcurrentSendSMS(s, k, o) ==
    /\ req[s].pc = "idle"
    /\ started < MaxRequests
    /\ started' = started + 1
    /\ UNCHANGED registry
    /\ LET id == registry[k].ref
       IN  \E e \in sendSMS(heap[id], Options[o]) :
              Apply(s, NewRequest("direct", o, "", "", <<id>>)
                         @@ [overlap |-> InFlight(id)], id, e, TRUE)

\* what the Kairos SDK answers to the concurrent calls: an accepted message,
\* a refused one and a rejected promise
ConcurrentAnswers ==
    { Resolved([success |-> TRUE, statusCode |-> 200, dataId |-> "k-1"]),
      Resolved([success |-> FALSE, statusCode |-> 400, statusMessage |-> "Bad request"]),
      Rejected([isError |-> TRUE, message |-> "timeout of 30000ms exceeded"]) }

NextConcurrent ==
    \/ \E s \in Callers, k \in 1..Len(registry), o \in {"valid", "badSender"} :
          ConcurrentSendSMS(s, k, o)
    \/ \E s \in Callers : RouterSendSMS(s, "valid", "GH", "")
    \/ \E s \in Callers : RouterResume(s)
    \/ \E s \in Callers, u \in ConcurrentAnswers : KairosUpstream(s, u, MaxLatency)
    \/ \E s \in Callers : Return(s)

SpecConcurrent == InitConcurrent /\ [][NextConcurrent]_vars

\* C21: however the calls interleave, the counters of an adapter are those of
\* the updates made on it, and once no call is in progress its totalSent is
\* the number of sendSMS calls made on it and its totalDelivered and
\* totalFailed the numbers of attempts recorded as successes and as failures.
C21_NoLostUpdates ==
    \A id \in 1..Len(heap) :
        /\ heap[id].stats.totalSent = hist[id].returned
        /\ heap[id].stats.totalDelivered = hist[id].ok
        /\ heap[id].stats.totalFailed = hist[id].failed
        /\ (\A s \in Callers : req[s].pc \in {"idle", "done"}) =>
              heap[id].stats.totalSent = hist[id].invoked

\* C21 witness: two calls were in flight on the Kairos adapter at the same
\* time, both have completed, one as a success and one as a failure
C21_Witness ==
    /\ \A s \in Callers : req[s].pc = "done" /\ req[s].mode = "direct"
    /\ \E s \in Callers : req[s].overlap = 1
    /\ heap[1].kind = "kairos"
    /\ hist[1].invoked = 2
    /\ heap[1].stats.totalSent = 2
    /\ heap[1].stats.totalDelivered = 1
    /\ heap[1].stats.totalFailed = 1

(***************************************************************************)
(* Timeouts.  The router awaits provider.sendSMS(options) with no timer of *)
(* its own (provider.router.ts line 52) and no adapter reads               *)
(* config.timeout; the one timeout there is, is the one initializeKairos   *)
(* hands to the Kairos SDK, which rejects the pending call with an Error   *)
(* that carries no statusCode.                                             *)
(***************************************************************************)
\* the attempt ended because the Kairos SDK's timeout expired
TimedOut(promise) ==
    /\ promise.tag = "resolved"
    /\ Has(promise.value, "message")
    /\ promise.value.message = "timeout of 30000ms exceeded"

Cancelled(r) == Has(r, "cancelled")

\* the caller cancels the request while an adapter attempt is in flight
Cancel(s) ==
    /\ req[s].pc = "upstream"
    /\ req[s].mode = "router"
    /\ ~Cancelled(req[s])
    /\ req' = [req EXCEPT ![s] = @ @@ [cancelled |-> TRUE]]
    /\ UNCHANGED <<heap, registry, hist, started>>

NextCancel ==
    \/ \E s \in Slots, c \in Countries, n \in Networks : RouterSendSMS(s, "valid", c, n)
    \/ \E s \in Slots : Cancel(s)
    \/ \E s \in Slots : RouterResume(s)
    \/ \E s \in Slots, u \in KairosUpstreams, l \in Latencies : KairosUpstream(s, u, l)
    \/ \E s \in Slots : Return(s)

SpecCancel == Init /\ [][NextCancel]_vars

Str_mtn == <<"m", "t", "n">>

\* the configuration of the MTN adapter (provider.factory.ts lines 72-85)
MTNEntry ==
    [key |-> Str_mtn, kind |-> "mtn",
     config |-> [name |-> <<"M", "T", "N">>,
                 supportedCountries |-> <<"GH", "NG", "ZA", "UG", "RW", "CM", "BJ",
                                          "CI", "GN", "ZM", "SS", "SZ">>,
                 supportedNetworks |-> <<"mtn">>,
                 priority |-> 3]]

\* the four adapters initializeProviders can register, in its order
FactoryProviders == <<Catalogue[1], Catalogue[2], MTNEntry, Catalogue[4]>>

InitRouting ==
    /\ \E choice \in Increasing(1, 4, 4) :
          /\ registry = [i \in 1..Len(choice) |->
                           [key |-> FactoryProviders[choice[i]].key, ref |-> i]]
          /\ heap = [i \in 1..Len(choice) |->
                       [kind |-> FactoryProviders[choice[i]].kind,
                        config |-> FactoryProviders[choice[i]].config,
                        stats |-> NewStats]]
          /\ hist = [i \in 1..Len(choice) |-> NewHist]
    /\ req = [s \in Slots |-> Idle]
    /\ started = 0

\* the router draws up the candidates of a request (provider.router.ts 20-22)
Route(s, country, network) ==
    /\ req[s].pc = "idle"
    /\ req' = [req EXCEPT ![s] =
                 [pc |-> "looked", country |-> country, network |-> network,
                  candidates |-> Candidates(registry, heap, country, network)]]
    /\ UNCHANGED <<heap, registry, hist, started>>

NextRouting ==
    \/ \E s \in Slots, c \in {"GH", "NG", "KE", "ZA"}, n \in {"", "mtn"} : Route(s, c, n)
    \/ \E s \in Slots : LookupReturn(s)

SpecRouting == InitRouting /\ [][NextRouting]_vars

\* the README's routing table: the registry keys in the order it says they
\* are tried; it has no row for the other requests
RoutingTable(country, network) ==
    CASE country = "GH" /\ network = ""    -> <<Str_kairos, Str_africastalking, Str_twilio>>
      [] country = "NG" /\ network = ""    -> <<Str_africastalking, Str_mtn, Str_twilio>>
      [] country = "KE" /\ network = ""    -> <<Str_africastalking, Str_twilio>>
      [] country = "GH" /\ network = "mtn" -> <<Str_kairos, Str_mtn, Str_africastalking>>
      [] country = "NG" /\ network = "mtn" -> <<Str_mtn, Str_africastalking>>

InRoutingTable(country, network) ==
    \/ country \in {"GH", "NG"}
    \/ country = "KE" /\ network = ""

\* the registry keys of a list of instances
KeysOf(reg, ids) ==
    [j \in 1..Len(ids) |-> reg[CHOOSE i \in 1..Len(reg) : reg[i].ref = ids[j]].key]

\* C24: with all four providers configured, the candidates of a request the
\* README's routing table has a row for are those of the row, in its order.
C24_ReadmeRoutingTable ==
    \A s \in Slots :
        (/\ req[s].pc = "looked"
         /\ Len(registry) = 4
         /\ InRoutingTable(req[s].country, req[s].network)) =>
            /\ ~req[s].candidates.threw
            /\ KeysOf(registry, req[s].candidates.list)
                  = RoutingTable(req[s].country, req[s].network)

(***************************************************************************)
(* EmailService.sendBulkEmails (email.service.ts lines 189-247).  The      *)
(* request lists its recipients and may give a batch size; the frame of    *)
(* the call keeps the loop variables and a log of what happened in time:   *)
(* the start and the end of every sendEmail call and every elapsed delay.  *)
(* sendEmail is taken by its outcome, a promise that resolves or rejects.  *)
(***************************************************************************)
\* recipients of one bulk request
MaxRecipients == 4

\* request.batchSize || 50
DefaultBatchSize == 50

BulkRequests ==
    { [recipients |-> n] : n \in 0..MaxRecipients }
    \cup { [recipients |-> n, batchSize |-> b] : n \in 0..MaxRecipients, b \in 0..2 }

batchSize(request) ==
    IF Has(request, "batchSize") /\ request.batchSize # 0 THEN request.batchSize
    ELSE DefaultBatchSize

Min(a, b) == IF a < b THEN a ELSE b

\* the recipients after the batch: request.recipients.slice(i, i + batchSize)
BatchEnd(r) == Min(r.i + r.batchSize, r.total)

\* fault: the delay is also taken when the batch is the last one
MoreBatchesInclusive(r) == r.i + r.batchSize <= r.total

\* i + batchSize < request.recipients.length (line 234)
MoreBatches(r) == r.i + r.batchSize < r.total

BulkResponse(r) ==
    Resolved([totalEmails |-> r.total, queued |-> r.queued, failed |-> r.failed])

\* the loops from where the call stands up to its next await or its return
BulkStep(r) ==
    IF r.i >= r.total THEN Done(r, BulkResponse(r))
    ELSE IF r.i + r.k < BatchEnd(r)
    THEN [r EXCEPT !.pc = "sending",
                   !.log = Append(@, [e |-> "start", k |-> r.i + r.k + 1])]
    ELSE IF MoreBatches(r) THEN [r EXCEPT !.pc = "delay"]
    ELSE Done(r, BulkResponse(r))

InitBulk ==
    /\ registry = << >>
    /\ heap = << >>
    /\ hist = << >>
    /\ req = [s \in Slots |-> Idle]
    /\ started = 0

\* a caller invokes sendBulkEmails(accountId, request)
SendBulkEmails(s, request) ==
    /\ req[s].pc = "idle"
    /\ req' = [req EXCEPT ![s] =
                 BulkStep([pc |-> "start", mode |-> "bulk", total |-> request.recipients,
                           batchSize |-> batchSize(request), i |-> 0, k |-> 0,
                           queued |-> 0, failed |-> 0, log |-> << >>])]
    /\ UNCHANGED <<heap, registry, hist, started>>

\* the awaited sendEmail settles (lines 223-229)
SendEmailSettles(s, ok) ==
    /\ req[s].pc = "sending"
    /\ LET r == req[s]
       IN  req' = [req EXCEPT ![s] =
                     BulkStep([r EXCEPT !.log = Append(@, [e |-> "end", k |-> r.i + r.k + 1]),
                                        !.queued = @ + (IF ok THEN 1 ELSE 0),
                                        !.failed = @ + (IF ok THEN 0 ELSE 1),
                                        !.k = @ + 1])]
    /\ UNCHANGED <<heap, registry, hist, started>>

\* the timer of line 235 fires and the outer loop takes its next round
DelayElapses(s) ==
    /\ req[s].pc = "delay"
    /\ LET r == req[s]
       IN  req' = [req EXCEPT ![s] =
                     BulkStep([r EXCEPT !.log = Append(@, [e |-> "delay", k |-> 0]),
                                        !.i = @ + r.batchSize,
                                        !.k = 0])]
    /\ UNCHANGED <<heap, registry, hist, started>>

NextBulk ==
    \/ \E s \in Slots, request \in BulkRequests : SendBulkEmails(s, request)
    \/ \E s \in Slots, ok \in BOOLEAN : SendEmailSettles(s, ok)
    \/ \E s \in Slots : DelayElapses(s)
    \/ \E s \in Slots : Return(s)

SpecBulk == InitBulk /\ [][NextBulk]_vars

\* the batch the k-th recipient belongs to, counting batches from 0
BatchOf(r, k) == (k - 1) \div r.batchSize

Bulk(r) == r.pc \in {"sending", "delay", "done"} /\ r.mode = "bulk"

\* C25: the sends are made one at a time and in order; the first send of
\* every batch but the first starts right after a delay that itself follows
\* the end of the last send of the batch before; a send that is not the
\* first of its batch starts right after the send before it ended; and the
\* call returns after the end of the last send, never after a delay.
C25_BulkPacing ==
    \A s \in Slots :
        Bulk(req[s]) =>
            LET r   == req[s]
                log == r.log
            IN  /\ \A p \in 1..Len(log) :
                      /\ log[p].e = "end" =>
                            p > 1 /\ log[p - 1] = [e |-> "start", k |-> log[p].k]
                      /\ (log[p].e = "start" /\ log[p].k = 1) => p = 1
                      /\ (log[p].e = "start" /\ log[p].k > 1) =>
                            IF BatchOf(r, log[p].k) # BatchOf(r, log[p].k - 1)
                            THEN /\ p > 2
                                 /\ log[p - 1].e = "delay"
                                 /\ log[p - 2] = [e |-> "end", k |-> log[p].k - 1]
                            ELSE log[p - 1] = [e |-> "end", k |-> log[p].k - 1]
                      /\ log[p].e = "delay" =>
                            p > 1 /\ log[p - 1].e = "end" /\ log[p - 1].k < r.total
                /\ r.pc = "done" =>
                      /\ Cardinality({ p \in 1..Len(log) : log[p].e = "end" }) = r.total
                      /\ log # << >> => log[Len(log)] = [e |-> "end", k |-> r.total]

\* C25 witness: four recipients in batches of two, all sent, one delay taken
\* between the two batches and none after the second
C25_Witness ==
    \E s \in Slots :
        /\ Bulk(req[s])
        /\ req[s].pc = "done"
        /\ req[s].total = 4
        /\ req[s].batchSize = 2
        /\ Cardinality({ p \in 1..Len(req[s].log) : req[s].log[p].e = "delay" }) = 1
        /\ req[s].log[5].e = "delay"

\* the registry key under which an instance is registered
KeyOf(reg, id) == reg[CHOOSE i \in 1..Len(reg) : reg[i].ref = id].key

\* C26: what a routed request returns on success is the very response of the
\* adapter called last, the first whose call succeeded; its providerId is the
\* key that adapter is registered under, and getProvider(providerId) is that
\* adapter.
C26_ReportsSendingAdapter ==
    \A s \in Slots :
        (RoutedDone(req[s]) /\ req[s].result.tag = "resolved"
                            /\ req[s].result.value.success) =>
            LET r    == req[s]
                sent == r.tried[Len(r.tried)]
            IN  /\ r.promise.tag = "resolved"
                /\ r.result.value = r.promise.value
                /\ r.outcomes[Len(r.tried)] = "ok"
                /\ \A j \in 1..(Len(r.tried) - 1) : r.outcomes[j] # "ok"
                /\ r.result.value.providerId = KeyOf(registry, sent)
                /\ r.result.value.providerId = getProviderId(heap[sent].config)
                /\ getProvider(registry, r.result.value.providerId) = sent

\* C26 witness: the first candidate failed, the second one, Africa's Talking,
\* succeeded, and the response names it
C26_Witness ==
    \E s \in Slots :
        /\ RoutedDone(req[s])
        /\ req[s].outcomes = <<"fail", "ok">>
        /\ req[s].result.value.success
        /\ req[s].result.value.providerId = Str_africastalking
        /\ Has(req[s].result.value, "externalId")
        /\ heap[getProvider(registry, Str_africastalking)].kind = "africastalking"
        /\ getProvider(registry, Str_africastalking) = req[s].tried[2]

\* the counters of an instance as <<totalSent, totalDelivered, totalFailed>>
Counters(stats) == <<stats.totalSent, stats.totalDelivered, stats.totalFailed>>

\* C27: after the first request of a run, a routed one over shipped adapters
\* in which candidates 1..k-1 failed and candidate k succeeded, each of the
\* candidates 1..k-1 counts one attempt, a failed one, candidate k counts one
\* attempt, a delivered one, and every other registered adapter counts none.
C27_RoutedSendEffect ==
    \A s \in Slots :
        (/\ RoutedDone(req[s])
         /\ started = 1
         /\ req[s].result.value.success
         /\ \A id \in 1..Len(heap) : heap[id].kind \in Shipped) =>
            LET r == req[s]
                k == Len(r.tried)
            IN  /\ \A j \in 1..(k - 1) : Counters(heap[r.tried[j]].stats) = <<1, 0, 1>>
                /\ Counters(heap[r.tried[k]].stats) = <<1, 1, 0>>
                /\ \A id \in 1..Len(heap) :
                      id \notin Range(r.tried) => heap[id].stats = NewStats

(***************************************************************************)
(* updateStats on its own: one adapter whose updateStats is called up to   *)
(* MaxAttempts times with either flag and with a latency of 0, of some     *)
(* milliseconds, or none.  The frame keeps the arguments of the last call  *)
(* and the statistics it found.                                            *)
(***************************************************************************)
StatsLatencies == {NoLatency} \cup { Latency(ms) : ms \in Latencies \cup {200} }

InitStats ==
    /\ registry = RegistryOf(<<2>>)
    /\ heap = HeapOf(<<2>>)
    /\ hist = <<NewHist>>
    /\ req = [s \in Slots |-> Idle]
    /\ started = 0

\* this.updateStats(success, latency) on the registered adapter
UpdateStats(s, success, latency) ==
    /\ started < MaxAttempts
    /\ started' = started + 1
    /\ heap' = [heap EXCEPT ![1].stats = updateStats(@, success, latency)]
    /\ hist' = [hist EXCEPT ![1].ok = @ + (IF success THEN 1 ELSE 0),
                            ![1].failed = @ + (IF success THEN 0 ELSE 1)]
    /\ req' = [req EXCEPT ![s] = [pc |-> "updated", before |-> heap[1].stats,
                                  success |-> success, latency |-> latency]]
    /\ UNCHANGED registry

NextStats == \E s \in Slots, success \in BOOLEAN, latency \in StatsLatencies :
                UpdateStats(s, success, latency)

SpecStats == InitStats /\ [][NextStats]_vars

\* C28: a call that supplies a latency, 0 included, leaves avgLatency at
\* (oldAvg * (n - 1) + latency) / n, n being the attempt count after the call;
\* a call that supplies none leaves avgLatency as it was.
C28_RunningAverage ==
    \A s \in Slots :
        req[s].pc = "updated" =>
            LET old == req[s].before.avgLatency
                n   == heap[1].stats.totalSent
            IN  /\ n = req[s].before.totalSent + 1
                /\ heap[1].stats.avgLatency =
                      IF req[s].latency.given
                      THEN Frac(old[1] * (n - 1) + req[s].latency.ms * old[2], old[2] * n)
                      ELSE old

\* C29: the step in which a call of KairosProvider.sendSMS returns raises
\* totalDelivered by one when the response it returns has success = true and
\* leaves it when the response has success = false.
C29_RecordedFlagIsReturnedFlag ==
    [][\A s \in Slots :
          (req[s].pc # "done" /\ req'[s].pc = "done") =>
              /\ req'[s].result.tag = "resolved"
              /\ heap'[1].stats.totalDelivered =
                    heap[1].stats.totalDelivered
                      + (IF req'[s].result.value.success THEN 1 ELSE 0)]_vars

\* the statuses an outcome with success = true may carry, and those an
\* outcome with success = false may carry
SuccessStatuses == {"submitted", "sent", "delivered"}

FailureStatuses == {"failed", "rejected", "invalid_parameters", "authentication_error",
                    "insufficient_credit", "provider_error"}

Agrees(response) ==
    IF response.success THEN response.status \in SuccessStatuses
    ELSE response.status \in FailureStatuses

\* C30: every response an adapter hands to the router and every response a
\* caller is returned, by an adapter or by the router, has a status that
\* agrees with its success flag.
C30_SuccessAgreesWithStatus ==
    \A s \in Slots :
        /\ (req[s].pc = "resume" /\ req[s].promise.tag = "resolved")
              => Agrees(req[s].promise.value)
        /\ (req[s].pc = "done" /\ req[s].result.tag = "resolved")
              => Agrees(req[s].result.value)

=============================================================================
